---- MODULE Spec2Model ----
(***************************************************************************)
(* A model of the idem-serverless request pipeline:                        *)
(*   - the status-code algebra        (idem-handler/src/status.rs)         *)
(*   - the Exchange and Attachments   (idem-handler/src/exchange.rs)       *)
(*   - the executor loop of entry     (src/entry.rs)                       *)
(*   - the handler factory            (src/handler/mod.rs)                 *)
(*   - the config file cache          (idem-config/src/config_cache.rs)    *)
(*   - the OpenAPI validator          (idem-openapi/src/lib.rs,            *)
(*                                     idem-openapi/src/node_finder.rs)    *)
(*   - the JSON-pointer builders      (idem-openapi/src/json_path_builder.rs) *)
(*   - the CORS, proxy, traceability, echo and health-check handlers       *)
(*                                    (idem-serverless/src/implementation, *)
(*                                     src/handler)                        *)
(*   - JWT scope verification         (src/handler/jwt.rs)                 *)
(***************************************************************************)
EXTENDS Integers, Sequences, FiniteSets, TLC

VARIABLES
    code,                \* status algebra: the receiver Code of a flag test
    flags,               \* status algebra: first mask
    flags2,              \* status algebra: second mask
    st,                  \* status algebra: results of the evaluated operations
    exchange,            \* the Exchange record (input, output, listeners, attachments)
    calls,               \* history: listener invocations, in the order they happened
    registered,          \* history: side of every listener ever registered (index = id)
    takenAfter,          \* history: listeners registered before a successful take of their side
    taken,               \* history: sides on which a take has succeeded
    adds,                \* history: add_attachment calls, in order
    last,                \* the last Exchange operation called and what it returned
    pc,                  \* entry: position of the request task
    config,              \* entry: the ExecutionFlowConfig read from handlers.json
    event,               \* entry: the incoming request (path, http_method)
    handlers_to_execute, \* entry: the handlers built for the matched route
    idx,                 \* entry: position of the executor loop in executor.handlers
    trace,               \* history: handlers invoked by the loop and the status each returned
    result,              \* entry: what the request task returned
    FILE_CACHE,          \* config cache: the map behind the RwLock (path -> Option<Arc>)
    tpc,                 \* config cache: position of every thread inside get_config_file
    file_path,           \* config cache: the path every thread is asking for
    contents,            \* config cache: the Arc a thread has built after a miss
    started,             \* history: the epoch in which a thread's call began
    epoch,               \* history: number of clear_cache / init_or_replace_config calls so far
    nextArc,             \* config cache: the next allocation (the identity of an Arc)
    returned,            \* history: <<path, Arc>> returned by calls made wholly in this epoch
    specification,       \* validator: the OpenAPI document (or the schema) in use
    args,                \* validator: the arguments of the call
    answer               \* validator: what the call returned

statusVars == <<code, flags, flags2, st>>
exchangeVars == <<exchange, calls, registered, takenAfter, taken, adds, last>>
entryVars == <<pc, config, event, handlers_to_execute, idx, trace, result>>
cacheVars == <<FILE_CACHE, tpc, file_path, contents, started, epoch, nextArc, returned>>
openapiVars == <<specification, args, answer>>
libVars == <<cacheVars, openapiVars>>
coreVars == <<statusVars, exchangeVars, entryVars>>
vars == <<statusVars, exchangeVars, entryVars, cacheVars, openapiVars>>

(***************************************************************************)
(* Bounds of the model.                                                    *)
(***************************************************************************)
\* Largest number of bits set in a mask drawn for the status algebra.
MaxMaskBits == 2
\* Largest number of listeners registered on one Exchange.
MaxListeners == 3
\* Largest number of add_attachment calls on one attachment store.
MaxAdds == 3
\* Largest number of entries of a route's exec list.
MaxExec == 2
\* Number of threads calling into the config file cache.
MaxThreads == 2
\* Largest number of Arc allocations made by the config file cache.
MaxArcs == 3
\* Largest number of clear_cache / init_or_replace_config calls.
MaxEpochs == 2
\* Largest number of subschemas under one of allOf, anyOf, oneOf.
MaxSubschemas == 2
\* Largest number of characters of a request path.
MaxPathLen == 4

(***************************************************************************)
(* Option<T>: None is the empty sequence, Some(v) the one-element one.     *)
(***************************************************************************)
None == <<>>
Some(v) == <<v>>
IsSome(o) == o # None
Unwrap(o) == o[1]

(***************************************************************************)
(* Result<HandlerStatus, HandlerExecutionError> of a handler's exec.       *)
(***************************************************************************)
Ok(c) == <<"Ok", c>>
Err == <<"Err">>
IsOk(r) == r[1] = "Ok"
CodeOf(r) == r[2]

(***************************************************************************)
(* Status algebra: Code(pub i32) and its bitwise operators.                *)
(***************************************************************************)
\* 1 << n on i32, for the shifts the constants use (no overflow: n <= 6).
Shl(a, n) == a * (2 ^ n)

OK == 1
REQUEST_COMPLETED == Shl(1, 1)
SERVER_ERROR == Shl(1, 2)
CLIENT_ERROR == Shl(1, 3)
DISABLED == Shl(1, 4)
TIMEOUT == Shl(1, 5)
CONTINUE == Shl(1, 6)

\* The seven named codes, in declaration order.
NamedCodes == <<OK, REQUEST_COMPLETED, SERVER_ERROR, CLIENT_ERROR, DISABLED, TIMEOUT, CONTINUE>>

\* Number of bits the named codes occupy; codes of the model are 0 .. 2^CodeWidth - 1.
CodeWidth == Len(NamedCodes)
Codes == 0 .. (2 ^ CodeWidth - 1)

RECURSIVE AndBits(_, _)
AndBits(a, b) ==
    IF a = 0 \/ b = 0 THEN 0
    ELSE (IF a % 2 = 1 /\ b % 2 = 1 THEN 1 ELSE 0) + 2 * AndBits(a \div 2, b \div 2)

RECURSIVE OrBits(_, _)
OrBits(a, b) ==
    IF a = 0 THEN b
    ELSE IF b = 0 THEN a
    ELSE (IF a % 2 = 1 \/ b % 2 = 1 THEN 1 ELSE 0) + 2 * OrBits(a \div 2, b \div 2)

\* impl BitAnd for Code
BitAnd(self, rhs) == AndBits(self, rhs)

\* A BitOr that adds the words: right only for disjoint masks.
BitOr_add(self, rhs) == (self + rhs) % (2 ^ CodeWidth)

\* impl BitOr for Code
BitOr(self, rhs) == OrBits(self, rhs)

\* Code::any_flags: self.0 & flags.0 != 0
any_flags(self, f) == BitAnd(self, f) # 0

\* Code::any_flags_clear: self.0 & flags.0 != flags.0
any_flags_clear(self, f) == BitAnd(self, f) # f

\* Code::all_flags: self.0 & flags.0 == 0   (the body the source has)
all_flags(self, f) == BitAnd(self, f) = 0

\* Code::all_flags_clear: self.0 & flags.0 == 0
all_flags_clear(self, f) == BitAnd(self, f) = 0

\* The set of bit positions set in a code word, read off its binary digits.
BitsOf(n) == {i \in 0 .. (CodeWidth - 1) : (n \div (2 ^ i)) % 2 = 1}

\* Masks of at most MaxMaskBits named codes or-ed together.
Masks == {m \in Codes : Cardinality(BitsOf(m)) <= MaxMaskBits}

StatusInit ==
    /\ code \in Codes
    /\ flags \in Masks
    /\ flags2 \in Masks
    /\ st = None

\* One evaluation of the flag tests and of the or-combinator on the drawn words.
StatusEval ==
    /\ st = None
    /\ st' = Some([any |-> any_flags(code, flags),
                   any2 |-> any_flags(code, flags2),
                   anyOr |-> any_flags(code, BitOr(flags, flags2)),
                   all |-> all_flags(code, flags),
                   anyClear |-> any_flags_clear(code, flags),
                   allClear |-> all_flags_clear(code, flags)])
    /\ UNCHANGED <<code, flags, flags2>>
    /\ UNCHANGED <<exchangeVars, entryVars, libVars>>

(***************************************************************************)
(* Exchange<Input, Output, Metadata> and Attachments.                      *)
(* A value (Input or Output) is a record with a field marks: the ids of    *)
(* the listeners that have been invoked on it, in invocation order.  A     *)
(* listener is identified by the number of its registration.               *)
(***************************************************************************)
Bodies == {"b1", "b2"}
Value(b) == [body |-> b, marks |-> <<>>]

AttachmentKeys == {"k1", "k2"}
TypeIds == {"String", "u32"}
\* A Box<dyn Any + Send>: the concrete type of the boxed value and the value.
Boxed == [ty : TypeIds, val : {"v"}]

\* Attachments::new
Attachments_new == [q \in {} |-> None]

\* Exchange::new
Exchange_new ==
    [metadata |-> None, input |-> None, output |-> None,
     input_listeners |-> <<>>, output_listeners |-> <<>>,
     attachments |-> Attachments_new]

\* Exchange::add_metadata
add_metadata(ex, m) == [ex EXCEPT !.metadata = Some(m)]

\* Exchange::add_input_listener: push at the end of the vector
add_input_listener(ex, id) == [ex EXCEPT !.input_listeners = Append(@, id)]

\* Exchange::add_output_listener: push at the end of the vector
add_output_listener(ex, id) == [ex EXCEPT !.output_listeners = Append(@, id)]

\* Callback::invoke: the closure runs on the value (it leaves its mark on it)
invoke(id, value) == [value EXCEPT !.marks = Append(@, id)]

\* The loop  for mut callback in listeners.drain(..) { callback.invoke(value, ..) }
\* on the value held by the option opt: the value after the loop and the
\* invocations made, each with whether the value was held when it was made.
RECURSIVE drain_invoke(_, _, _)
drain_invoke(listeners, opt, side) ==
    IF listeners = <<>> THEN [opt |-> opt, fired |-> <<>>]
    ELSE LET id == Head(listeners)
             rest == drain_invoke(Tail(listeners), Some(invoke(id, Unwrap(opt))), side)
         IN [opt |-> rest.opt,
             fired |-> <<[id |-> id, side |-> side, present |-> IsSome(opt)]>> \o rest.fired]

\* The same loop walking the vector from its end.
RECURSIVE drain_invoke_rev(_, _, _)
drain_invoke_rev(listeners, opt, side) ==
    IF listeners = <<>> THEN [opt |-> opt, fired |-> <<>>]
    ELSE LET id == listeners[Len(listeners)]
             rest == drain_invoke_rev(SubSeq(listeners, 1, Len(listeners) - 1),
                                      Some(invoke(id, Unwrap(opt))), side)
         IN [opt |-> rest.opt,
             fired |-> <<[id |-> id, side |-> side, present |-> IsSome(opt)]>> \o rest.fired]

\* execute_input_callbacks with the listeners iterated but left in the vector.
execute_input_callbacks_keep(ex) ==
    IF IsSome(ex.input)
    THEN LET r == drain_invoke(ex.input_listeners, ex.input, "input")
         IN [ok |-> TRUE, fired |-> r.fired, ex |-> [ex EXCEPT !.input = r.opt]]
    ELSE [ok |-> FALSE, fired |-> <<>>, ex |-> ex]

\* execute_input_callbacks iterating the vector from its end.
execute_input_callbacks_rev(ex) ==
    IF IsSome(ex.input)
    THEN LET r == drain_invoke_rev(ex.input_listeners, ex.input, "input")
         IN [ok |-> TRUE, fired |-> r.fired,
             ex |-> [ex EXCEPT !.input = r.opt, !.input_listeners = <<>>]]
    ELSE [ok |-> FALSE, fired |-> <<>>, ex |-> ex]

\* Exchange::execute_input_callbacks
execute_input_callbacks(ex) ==
    IF IsSome(ex.input)
    THEN LET r == drain_invoke(ex.input_listeners, ex.input, "input")
         IN [ok |-> TRUE, fired |-> r.fired,
             ex |-> [ex EXCEPT !.input = r.opt, !.input_listeners = <<>>]]
    ELSE [ok |-> FALSE, fired |-> <<>>, ex |-> ex]

\* Exchange::execute_output_callbacks
execute_output_callbacks(ex) ==
    IF IsSome(ex.output)
    THEN LET r == drain_invoke(ex.output_listeners, ex.output, "output")
         IN [ok |-> TRUE, fired |-> r.fired,
             ex |-> [ex EXCEPT !.output = r.opt, !.output_listeners = <<>>]]
    ELSE [ok |-> FALSE, fired |-> <<>>, ex |-> ex]

\* Exchange::save_input
save_input(ex, request) == [ex EXCEPT !.input = Some(request)]

\* Exchange::input and Exchange::input_mut: Ok(borrow) or Err(())
input(ex) == [ok |-> IsSome(ex.input), value |-> ex.input]

\* Exchange::take_request
take_request(ex) ==
    LET r == execute_input_callbacks(ex)
    IN IF r.ok
       THEN [ok |-> IsSome(r.ex.input), value |-> r.ex.input, fired |-> r.fired,
             ex |-> [r.ex EXCEPT !.input = None]]
       ELSE [ok |-> FALSE, value |-> None, fired |-> <<>>, ex |-> ex]

\* Exchange::save_output
save_output(ex, response) == [ex EXCEPT !.output = Some(response)]

\* Exchange::output and Exchange::output_mut: Ok(borrow) or Err(())
output(ex) == [ok |-> IsSome(ex.output), value |-> ex.output]

\* Exchange::take_output
take_output(ex) ==
    LET r == execute_output_callbacks(ex)
    IN IF r.ok
       THEN [ok |-> IsSome(r.ex.output), value |-> r.ex.output, fired |-> r.fired,
             ex |-> [r.ex EXCEPT !.output = None]]
       ELSE [ok |-> FALSE, value |-> None, fired |-> <<>>, ex |-> ex]

\* HashMap::insert of value under the pair p
map_insert(att, p, value) ==
    [q \in (DOMAIN att) \cup {p} |-> IF q = p THEN value ELSE att[q]]

\* An insert that keeps one entry per key, whatever its type.
add_attachment_by_key(att, key, K, value) ==
    LET kept == {q \in DOMAIN att : q[1] # key}
    IN [q \in kept \cup {<<key, K>>} |-> IF q = <<key, K>> THEN value ELSE att[q]]

\* Attachments::add_attachment::<K>(key, value)
add_attachment(att, key, K, value) == map_insert(att, <<key, K>>, value)

\* <dyn Any>::downcast_ref::<K>
downcast_ref(boxed, K) == IF boxed.ty = K THEN Some(boxed.val) ELSE None

\* Attachments::attachment::<K>(key)
attachment(att, key, K) ==
    IF <<key, K>> \in DOMAIN att THEN downcast_ref(att[<<key, K>>], K) ELSE None

(***************************************************************************)
(* The Exchange driven by an arbitrary caller: any sequence of its public  *)
(* operations, on one Exchange.                                            *)
(***************************************************************************)
Sides == {"input", "output"}

\* The listeners registered so far on a side.
RegisteredOn(side) == {id \in 1 .. Len(registered) : registered[id] = side}

\* What an operation leaves in last: its name, Ok/Err, the value it returned,
\* and the sides already consumed when it was called.
Returned(op, ok, value) == [op |-> op, ok |-> ok, value |-> value, takenBefore |-> taken]

(***************************************************************************)
(* The config file cache and the validator at rest.                        *)
(***************************************************************************)
Threads == 1 .. MaxThreads
\* The paths asked for, and the ones std::fs::read_to_string can read.
ConfigPaths == {"test.file", "absent.file"}
ReadableFiles == {"test.file"}

\* LazyLock::new(|| RwLock::new(HashMap::new())), no thread inside a call
CacheInit ==
    /\ FILE_CACHE = [p \in ConfigPaths |-> None]
    /\ tpc = [t \in Threads |-> "idle"]
    /\ file_path = [t \in Threads |-> None]
    /\ contents = [t \in Threads |-> None]
    /\ started = [t \in Threads |-> 0]
    /\ epoch = 0
    /\ nextArc = 1
    /\ returned = {}

OpenapiIdle ==
    /\ specification = None
    /\ args = None
    /\ answer = None

LibIdle == CacheInit /\ OpenapiIdle

EntryIdle ==
    /\ pc = "idle"
    /\ config = None
    /\ event = None
    /\ handlers_to_execute = <<>>
    /\ idx = 0
    /\ trace = <<>>
    /\ result = None

StatusIdle ==
    /\ code = 0
    /\ flags = 0
    /\ flags2 = 0
    /\ st = None

ExchangeInit ==
    /\ exchange = Exchange_new
    /\ calls = <<>>
    /\ registered = <<>>
    /\ takenAfter = {}
    /\ taken = {}
    /\ adds = <<>>
    /\ last = Returned("new", TRUE, None)

AddMetadata ==
    /\ exchange.metadata = None
    /\ exchange' = add_metadata(exchange, "context")
    /\ last' = Returned("add_metadata", TRUE, None)
    /\ UNCHANGED <<calls, registered, takenAfter, taken, adds>>
    /\ UNCHANGED <<statusVars, entryVars, libVars>>

AddInputListener ==
    /\ Len(registered) < MaxListeners
    /\ exchange' = add_input_listener(exchange, Len(registered) + 1)
    /\ registered' = Append(registered, "input")
    /\ last' = Returned("add_input_listener", TRUE, None)
    /\ UNCHANGED <<calls, takenAfter, taken, adds>>
    /\ UNCHANGED <<statusVars, entryVars, libVars>>

AddOutputListener ==
    /\ Len(registered) < MaxListeners
    /\ exchange' = add_output_listener(exchange, Len(registered) + 1)
    /\ registered' = Append(registered, "output")
    /\ last' = Returned("add_output_listener", TRUE, None)
    /\ UNCHANGED <<calls, takenAfter, taken, adds>>
    /\ UNCHANGED <<statusVars, entryVars, libVars>>

SaveInput ==
    /\ \E b \in Bodies :
            /\ exchange' = save_input(exchange, Value(b))
            /\ last' = Returned("save_input", TRUE, None)
            /\ UNCHANGED <<calls, registered, takenAfter, taken, adds>>
    /\ UNCHANGED <<statusVars, entryVars, libVars>>

SaveOutput ==
    /\ \E b \in Bodies :
            /\ exchange' = save_output(exchange, Value(b))
            /\ last' = Returned("save_output", TRUE, None)
            /\ UNCHANGED <<calls, registered, takenAfter, taken, adds>>
    /\ UNCHANGED <<statusVars, entryVars, libVars>>

Input ==
    /\ last' = Returned("input", input(exchange).ok, input(exchange).value)
    /\ UNCHANGED <<exchange, calls, registered, takenAfter, taken, adds>>
    /\ UNCHANGED <<statusVars, entryVars, libVars>>

\* input_mut, and the caller writing through the borrow it got
InputMut ==
    /\ \E b \in Bodies :
            /\ exchange' = IF input(exchange).ok
                           THEN [exchange EXCEPT !.input = Some([Unwrap(@) EXCEPT !.body = b])]
                           ELSE exchange
            /\ last' = Returned("input_mut", input(exchange).ok, input(exchange).value)
            /\ UNCHANGED <<calls, registered, takenAfter, taken, adds>>
    /\ UNCHANGED <<statusVars, entryVars, libVars>>

Output ==
    /\ last' = Returned("output", output(exchange).ok, output(exchange).value)
    /\ UNCHANGED <<exchange, calls, registered, takenAfter, taken, adds>>
    /\ UNCHANGED <<statusVars, entryVars, libVars>>

\* output_mut, and the caller writing through the borrow it got
OutputMut ==
    /\ \E b \in Bodies :
            /\ exchange' = IF output(exchange).ok
                           THEN [exchange EXCEPT !.output = Some([Unwrap(@) EXCEPT !.body = b])]
                           ELSE exchange
            /\ last' = Returned("output_mut", output(exchange).ok, output(exchange).value)
            /\ UNCHANGED <<calls, registered, takenAfter, taken, adds>>
    /\ UNCHANGED <<statusVars, entryVars, libVars>>

TakeRequest ==
    /\ LET r == take_request(exchange)
        IN /\ exchange' = r.ex
           /\ calls' = calls \o r.fired
           /\ takenAfter' = IF r.ok THEN takenAfter \cup RegisteredOn("input") ELSE takenAfter
           /\ taken' = IF r.ok THEN taken \cup {"input"} ELSE taken
           /\ last' = Returned("take_request", r.ok, r.value)
           /\ UNCHANGED <<registered, adds>>
    /\ UNCHANGED <<statusVars, entryVars, libVars>>

TakeOutput ==
    /\ LET r == take_output(exchange)
        IN /\ exchange' = r.ex
           /\ calls' = calls \o r.fired
           /\ takenAfter' = IF r.ok THEN takenAfter \cup RegisteredOn("output") ELSE takenAfter
           /\ taken' = IF r.ok THEN taken \cup {"output"} ELSE taken
           /\ last' = Returned("take_output", r.ok, r.value)
           /\ UNCHANGED <<registered, adds>>
    /\ UNCHANGED <<statusVars, entryVars, libVars>>

ExchangeNext ==
    \/ AddMetadata
    \/ AddInputListener
    \/ AddOutputListener
    \/ SaveInput
    \/ SaveOutput
    \/ Input
    \/ InputMut
    \/ Output
    \/ OutputMut
    \/ TakeRequest
    \/ TakeOutput

InitExchange == ExchangeInit /\ StatusIdle /\ EntryIdle /\ LibIdle

SpecExchange == InitExchange /\ [][ExchangeNext]_vars

(***************************************************************************)
(* The attachment store driven by an arbitrary caller.                     *)
(***************************************************************************)
AddAttachment ==
    /\ \E key \in AttachmentKeys, K \in TypeIds, value \in Boxed :
            /\ Len(adds) < MaxAdds
            /\ exchange' = [exchange EXCEPT !.attachments = add_attachment(@, key, K, value)]
            /\ adds' = Append(adds, [key |-> key, K |-> K, value |-> value])
            /\ last' = [op |-> "add_attachment", key |-> key, K |-> K, value |-> None]
            /\ UNCHANGED <<calls, registered, takenAfter, taken>>
    /\ UNCHANGED <<statusVars, entryVars, libVars>>

GetAttachment ==
    /\ \E key \in AttachmentKeys, K \in TypeIds :
            /\ last' = [op |-> "attachment", key |-> key, K |-> K,
                        value |-> attachment(exchange.attachments, key, K)]
            /\ UNCHANGED <<exchange, calls, registered, takenAfter, taken, adds>>
    /\ UNCHANGED <<statusVars, entryVars, libVars>>

AttachmentsNext ==
    \/ AddAttachment
    \/ GetAttachment

InitAttachments == ExchangeInit /\ StatusIdle /\ EntryIdle /\ LibIdle

SpecAttachments == InitAttachments /\ [][AttachmentsNext]_vars

(***************************************************************************)
(* The status algebra evaluated on every drawn code and pair of masks.     *)
(***************************************************************************)
StatusNext ==
    \/ StatusEval

InitStatus == StatusInit /\ ExchangeInit /\ EntryIdle /\ LibIdle

SpecStatus == InitStatus /\ [][StatusNext]_vars

(***************************************************************************)
(* entry: route lookup, handler resolution and the executor loop.          *)
(***************************************************************************)
\* The names LambdaHandlerFactory::create_handler has a match arm for.
FactoryNames ==
    {"ProxyHandler", "TraceabilityHandler", "HeaderHandler",
     "JwtValidationHandler", "CorsHandler", "HealthHandler"}

\* The chains of handlers.json: one named chain, as in the repository's sample.
Chains == [default |-> <<"TraceabilityHandler", "HeaderHandler">>]

\* The names a route's exec list is drawn from: the chain, a handler the
\* factory knows and one it does not (MyCustomHandler of the sample config).
ExecNames == {"default", "ProxyHandler", "MyCustomHandler"}

RECURSIVE SeqsUpTo(_, _)
SeqsUpTo(S, n) ==
    IF n = 0 THEN {<<>>}
    ELSE LET shorter == SeqsUpTo(S, n - 1)
         IN shorter \cup {Append(q, x) : q \in {r \in shorter : Len(r) = n - 1}, x \in S}

\* ExecutionFlowConfig: chains, paths (one configured path) and, as part of the
\* deployment, the handler config files that can be loaded from /opt/config.
Configs ==
    {[chains |-> Chains,
      paths |-> [p \in {"/a"} |-> [method |-> "GET", exec |-> e]],
      files |-> f] :
        e \in SeqsUpTo(ExecNames, MaxExec) \ {<<>>},
        f \in {FactoryNames, FactoryNames \ {"HeaderHandler"}}}

\* ApiGatewayProxyRequest: path (an Option) and http_method.
Events == [path : {None, Some("/a"), Some("/b")}, http_method : {"GET", "get", "POST"}]

\* u8::to_ascii_lowercase over the method names of the model
to_ascii_lowercase(m) ==
    CASE m = "GET" -> "get"
      [] m = "POST" -> "post"
      [] OTHER -> m

\* str::eq_ignore_ascii_case
eq_ignore_ascii_case(a, b) == to_ascii_lowercase(a) = to_ascii_lowercase(b)

\* LambdaHandlerFactory::create_handler: Ok(handler) for a known name whose
\* config loads (Config::new(..)?), Err(()) otherwise.
create_handler(cfg, name) ==
    IF name \in FactoryNames /\ name \in cfg.files THEN Some(name) ELSE None

\* The inner loop over a chain: push every handler that could be created.
RECURSIVE resolve_chain(_, _)
resolve_chain(cfg, chain) ==
    IF chain = <<>> THEN <<>>
    ELSE LET h == create_handler(cfg, Head(chain))
         IN (IF IsSome(h) THEN <<Unwrap(h)>> ELSE <<>>) \o resolve_chain(cfg, Tail(chain))

\* The loop  for exec in &path_config.exec  building handlers_to_execute.
RECURSIVE resolve_exec(_, _)
resolve_exec(cfg, exec) ==
    IF exec = <<>> THEN <<>>
    ELSE LET name == Head(exec)
             here == IF name \in DOMAIN cfg.chains
                     THEN resolve_chain(cfg, cfg.chains[name])
                     ELSE LET h == create_handler(cfg, name)
                          IN IF IsSome(h) THEN <<Unwrap(h)>> ELSE <<>>
         IN here \o resolve_exec(cfg, Tail(exec))

\* The mask of the first branch: Code::TIMEOUT | Code::SERVER_ERROR | Code::CLIENT_ERROR
FatalMask == BitOr(BitOr(TIMEOUT, SERVER_ERROR), CLIENT_ERROR)

\* The if / else-if chain on the status a handler returned.  The chain has no
\* final else: a status that takes no branch lets the for loop go on.
classify(c) ==
    IF any_flags(c, FatalMask) THEN "todo_exception"
    ELSE IF any_flags(c, CONTINUE) THEN "todo_continue"
    ELSE IF any_flags(c, BitOr(OK, DISABLED)) THEN "continue"
    ELSE IF all_flags(c, REQUEST_COMPLETED) THEN "break"
    ELSE "next"

\* What a handler's exec may return: Ok(status) with one of these codes
\* (the named ones and the empty word), or Err.
HandlerReturns == {Ok(c) : c \in {NamedCodes[i] : i \in 1 .. Len(NamedCodes)} \cup {0}} \cup {Err}

\* Whether a handler's exec may call add_output_listener: the request-phase
\* handlers (TraceabilityHandler, HeaderHandler, CorsHandler) do when enabled.
MayListen(name) ==
    IF name \in {"TraceabilityHandler", "HeaderHandler", "CorsHandler"}
    THEN BOOLEAN ELSE {FALSE}

\* Whether a handler's exec may call save_output: the handlers that produce the
\* response (ProxyHandler, HealthHandler, CorsHandler on a preflight) do.
MaySave(name) ==
    IF name \in {"ProxyHandler", "HealthHandler", "CorsHandler"}
    THEN BOOLEAN ELSE {FALSE}

\* return Ok(exchange.take_output().unwrap()): the response, or a panic
finish(ex) ==
    LET r == take_output(ex)
    IN [ex |-> r.ex, fired |-> r.fired, ok |-> r.ok,
        pc |-> IF r.ok THEN "done" ELSE "panicked",
        result |-> IF r.ok THEN Some([kind |-> "Ok", response |-> Unwrap(r.value)])
                   ELSE Some([kind |-> "panic", at |-> "take_output().unwrap()"])]

EntryInit ==
    /\ pc = "start"
    /\ config \in Configs
    /\ event \in Events
    /\ handlers_to_execute = <<>>
    /\ idx = 0
    /\ trace = <<>>
    /\ result = None

\* The history kept when the task ends with take_output.
Finished(f) ==
    /\ exchange' = f.ex
    /\ calls' = calls \o f.fired
    /\ takenAfter' = IF f.ok THEN takenAfter \cup {id \in 1 .. Len(registered') :
                                                    registered'[id] = "output"}
                     ELSE takenAfter
    /\ taken' = IF f.ok THEN taken \cup {"output"} ELSE taken
    /\ last' = Returned("take_output", f.ok, IF f.ok THEN Some(f.result[1].response) ELSE None)
    /\ pc' = f.pc
    /\ result' = f.result

\* entry up to the first handler.exec(..).await: the request has no path
EntryNoPath ==
    /\ pc = "start"
    /\ event.path = None
    /\ pc' = "panicked"
    /\ result' = Some([kind |-> "panic", at |-> "todo!()"])
    /\ UNCHANGED <<config, event, handlers_to_execute, idx, trace, exchangeVars>>
    /\ UNCHANGED <<statusVars, libVars>>

\* entry up to the first handler.exec(..).await: no route for path and method
EntryNotFound ==
    /\ pc = "start"
    /\ event.path # None
    /\ LET path == Unwrap(event.path)
       IN ~(path \in DOMAIN config.paths
            /\ eq_ignore_ascii_case(config.paths[path].method, event.http_method))
    /\ pc' = "done"
    /\ result' = Some([kind |-> "Err", message |-> "No configuration found"])
    /\ UNCHANGED <<config, event, handlers_to_execute, idx, trace, exchangeVars>>
    /\ UNCHANGED <<statusVars, libVars>>

\* entry up to the first handler.exec(..).await: the route matched
EntryResolve ==
    /\ pc = "start"
    /\ event.path # None
    /\ LET path == Unwrap(event.path)
       IN /\ path \in DOMAIN config.paths
          /\ eq_ignore_ascii_case(config.paths[path].method, event.http_method)
          /\ LET hs == resolve_exec(config, config.paths[path].exec)
                 ex == add_metadata(save_input(Exchange_new, Value("b1")), "context")
             IN /\ handlers_to_execute' = hs
                /\ registered' = registered
                /\ IF hs = <<>>
                   THEN /\ Finished(finish(ex))
                        /\ idx' = idx
                   ELSE /\ exchange' = ex
                        /\ pc' = "loop"
                        /\ idx' = 1
                        /\ last' = Returned("save_input", TRUE, None)
                        /\ UNCHANGED <<calls, takenAfter, taken, result>>
    /\ UNCHANGED <<config, event, trace, adds>>
    /\ UNCHANGED <<statusVars, libVars>>

\* One iteration of 'handler_exec: the handler runs on the exchange (it may
\* register an output listener and may save an output), returns, and the
\* executor acts on what it returned; when the loop is over, the output is taken.
HandlerExec ==
    /\ pc = "loop"
    /\ idx <= Len(handlers_to_execute)
    /\ \E listens \in MayListen(handlers_to_execute[idx]),
          saves \in MaySave(handlers_to_execute[idx]),
          ret \in HandlerReturns :
        LET name == handlers_to_execute[idx]
            id == Len(registered) + 1
            ex1 == IF listens THEN add_output_listener(exchange, id) ELSE exchange
            ex2 == IF saves THEN save_output(ex1, Value("b1")) ELSE ex1
            step == IF IsOk(ret) THEN classify(CodeOf(ret)) ELSE "err"
            over == step = "break" \/ (step \in {"continue", "next"}
                                        /\ idx = Len(handlers_to_execute))
        IN /\ listens => Len(registered) < MaxListeners
           /\ registered' = IF listens THEN Append(registered, "output") ELSE registered
           /\ trace' = Append(trace, [name |-> name, ret |-> ret,
                                      regBefore |-> Len(registered),
                                      outputSet |-> IsSome(ex2.output)])
           /\ IF over
              THEN /\ Finished(finish(ex2))
                   /\ idx' = idx
              ELSE /\ exchange' = ex2
                   /\ last' = Returned("exec", IsOk(ret), None)
                   /\ UNCHANGED <<calls, takenAfter, taken>>
                   /\ CASE step = "err" ->
                             /\ pc' = "done"
                             /\ result' = Some([kind |-> "Err",
                                                message |-> "Handler execution failed"])
                             /\ idx' = idx
                        [] step \in {"todo_exception", "todo_continue"} ->
                             /\ pc' = "panicked"
                             /\ result' = Some([kind |-> "panic", at |-> "todo!()"])
                             /\ idx' = idx
                        [] OTHER ->
                             /\ pc' = "loop"
                             /\ result' = result
                             /\ idx' = idx + 1
    /\ UNCHANGED <<config, event, handlers_to_execute, adds>>
    /\ UNCHANGED <<statusVars, libVars>>

EntryNext ==
    \/ EntryNoPath
    \/ EntryNotFound
    \/ EntryResolve
    \/ HandlerExec

InitEntry == EntryInit /\ ExchangeInit /\ StatusIdle /\ LibIdle

SpecEntry == InitEntry /\ [][EntryNext]_vars

(***************************************************************************)
(* The config file cache (idem-config/src/config_cache.rs) called from     *)
(* several threads.  A step is what a thread does under one acquisition of *)
(* the RwLock, or between two acquisitions.                                *)
(***************************************************************************)
\* What a returning call adds to the history: calls that began before the
\* last clear_cache / init_or_replace_config are not of this epoch.
Returning(t, p, arc) == IF started[t] = epoch THEN returned \cup {<<p, arc>>} ELSE returned

\* get_config_file, first block: the lookup under the read lock.  A hit
\* returns a clone of the cached Arc, a miss goes on to read the file.
GetLookup ==
    /\ \E t \in Threads, p \in ConfigPaths :
        /\ tpc[t] = "idle"
        /\ IF IsSome(FILE_CACHE[p])
           THEN /\ returned' = returned \cup {<<p, Unwrap(FILE_CACHE[p])>>}
                /\ UNCHANGED <<tpc, file_path, started>>
           ELSE /\ tpc' = [tpc EXCEPT ![t] = "missed"]
                /\ file_path' = [file_path EXCEPT ![t] = Some(p)]
                /\ started' = [started EXCEPT ![t] = epoch]
                /\ UNCHANGED returned
        /\ UNCHANGED <<FILE_CACHE, contents, epoch, nextArc>>
    /\ UNCHANGED <<coreVars, openapiVars>>

\* get_config_file: Arc::new(read_to_string(file_path)...unwrap()), outside
\* any lock.  An unreadable file makes the unwrap panic.
GetRead ==
    /\ \E t \in Threads :
        /\ tpc[t] = "missed"
        /\ IF Unwrap(file_path[t]) \in ReadableFiles
           THEN /\ nextArc <= MaxArcs
                /\ contents' = [contents EXCEPT ![t] = Some(nextArc)]
                /\ nextArc' = nextArc + 1
                /\ tpc' = [tpc EXCEPT ![t] = "loaded"]
           ELSE /\ tpc' = [tpc EXCEPT ![t] = "panicked"]
                /\ UNCHANGED <<contents, nextArc>>
        /\ UNCHANGED <<FILE_CACHE, file_path, started, epoch, returned>>
    /\ UNCHANGED <<coreVars, openapiVars>>

\* get_config_file, last block: cache.insert(path, contents.clone()) under
\* the write lock, then Ok(contents).
GetInsert ==
    /\ \E t \in Threads :
        /\ tpc[t] = "loaded"
        /\ FILE_CACHE' = [FILE_CACHE EXCEPT ![Unwrap(file_path[t])] = contents[t]]
        /\ returned' = Returning(t, Unwrap(file_path[t]), Unwrap(contents[t]))
        /\ tpc' = [tpc EXCEPT ![t] = "idle"]
        /\ file_path' = [file_path EXCEPT ![t] = None]
        /\ contents' = [contents EXCEPT ![t] = None]
        /\ UNCHANGED <<started, epoch, nextArc>>
    /\ UNCHANGED <<coreVars, openapiVars>>

\* init_or_replace_config: a fresh Arc replaces the entry; Err(()) and no
\* change when the file cannot be read.
InitOrReplaceConfig ==
    /\ \E p \in ConfigPaths :
        /\ epoch < MaxEpochs
        /\ epoch' = epoch + 1
        /\ returned' = {}
        /\ IF p \in ReadableFiles
           THEN /\ nextArc <= MaxArcs
                /\ FILE_CACHE' = [FILE_CACHE EXCEPT ![p] = Some(nextArc)]
                /\ nextArc' = nextArc + 1
           ELSE UNCHANGED <<FILE_CACHE, nextArc>>
        /\ UNCHANGED <<tpc, file_path, contents, started>>
    /\ UNCHANGED <<coreVars, openapiVars>>

\* clear_cache: FILE_CACHE.write().unwrap().clear()
ClearCache ==
    /\ epoch < MaxEpochs
    /\ epoch' = epoch + 1
    /\ returned' = {}
    /\ FILE_CACHE' = [p \in ConfigPaths |-> None]
    /\ UNCHANGED <<tpc, file_path, contents, started, nextArc>>
    /\ UNCHANGED <<coreVars, openapiVars>>

CacheNext ==
    \/ GetLookup
    \/ GetRead
    \/ GetInsert
    \/ InitOrReplaceConfig
    \/ ClearCache

InitCache == CacheInit /\ OpenapiIdle /\ ExchangeInit /\ StatusIdle /\ EntryIdle

SpecCache == InitCache /\ [][CacheNext]_vars

(***************************************************************************)
(* The OpenAPI validator (idem-openapi/src/lib.rs).                        *)
(* A string whose text is looked into (split, parsed, measured) is the     *)
(* sequence of its characters; a string that is only compared (a field     *)
(* name, a method) is a TLA+ string.  A serde_json::Value is a pair of the         *)
(* variant's name and its payload.                                         *)
(***************************************************************************)
JNull == <<"null">>
JBool(b) == <<"bool", b>>
JInt(n) == <<"integer", n>>
JStr(s) == <<"string", s>>
JArr(a) == <<"array", a>>
JObj(o) == <<"object", o>>

\* Value::as_str, as_i64, as_f64, as_bool, as_null, as_array, as_object
as_str(v) == IF v[1] = "string" THEN Some(v[2]) ELSE None
as_i64(v) == IF v[1] = "integer" THEN Some(v[2]) ELSE None
as_f64(v) == IF v[1] = "integer" THEN Some(v[2]) ELSE None
as_bool(v) == IF v[1] = "bool" THEN Some(v[2]) ELSE None
as_null(v) == IF v[1] = "null" THEN Some("null") ELSE None
as_array(v) == IF v[1] = "array" THEN Some(v[2]) ELSE None
as_object(v) == IF v[1] = "object" THEN Some(v[2]) ELSE None

\* ObjectSchema::default(): no keyword declared.  pattern is the set of the
\* strings the regular expression matches.
ObjectSchema_default ==
    [schema_type |-> None, required |-> <<>>, properties |-> [q \in {} |-> None],
     all_of |-> <<>>, any_of |-> <<>>, one_of |-> <<>>,
     maximum |-> None, minimum |-> None,
     exclusive_maximum |-> None, exclusive_minimum |-> None, multiple_of |-> None,
     max_length |-> None, min_length |-> None, pattern |-> None, format |-> None,
     max_items |-> None, min_items |-> None, unique_items |-> None, items |-> None]

\* SchemaTypeSet::Single(t) and SchemaTypeSet::Multiple(ts)
Single(t) == <<"Single", <<t>>>>
Multiple(ts) == <<"Multiple", ts>>

\* The strings of the model that match the regular expression of a format
\* (constants::pattern): none of the model's short strings is a date, an
\* address or a uuid; an unknown format matches nothing.
validate_string_format(string_value, format) == FALSE

\* OpenApiValidator::validate_string_rules
validate_string_rules(value, schema) ==
    IF IsSome(as_str(value))
    THEN LET str_val == Unwrap(as_str(value))
         IN IF IsSome(schema.max_length) /\ Unwrap(schema.max_length) < Len(str_val) THEN FALSE
            ELSE IF IsSome(schema.min_length) /\ Unwrap(schema.min_length) > Len(str_val) THEN FALSE
            ELSE IF IsSome(schema.pattern) /\ str_val \notin Unwrap(schema.pattern) THEN FALSE
            ELSE IF IsSome(schema.format)
                    /\ ~validate_string_format(str_val, Unwrap(schema.format)) THEN FALSE
            ELSE TRUE
    ELSE FALSE

\* serde_json::Number: Number::from(n) holds an i64; a number written with a
\* fraction or an exponent holds an f64, kept here as twice its value.
Number_from(n) == <<"i64", n>>
Number_from_f64(twice) == <<"f64", twice>>

\* Number::as_i64: None for a Number that holds an f64
Number_as_i64(n) == IF n[1] = "i64" THEN Some(n[2]) ELSE None

\* Number::as_f64, as twice the value
Number_as_f64(n) == IF n[1] = "i64" THEN 2 * n[2] ELSE n[2]

\* The i64 of a declared keyword: schema.<keyword>.as_ref().and_then(|v| v.as_i64())
and_then_as_i64(keyword) == IF IsSome(keyword) THEN Number_as_i64(Unwrap(keyword)) ELSE None

\* The remainder operator of i64 for a positive divisor (the sign of the
\* dividend)
rem(a, b) == IF a >= 0 THEN a % b ELSE 0 - ((0 - a) % b)

\* OpenApiValidator::validate_integer_rules (the integer schemas of the model
\* declare no format: validate_number_format is todo!())
validate_integer_rules(value, schema) ==
    IF IsSome(as_i64(value))
    THEN LET int_val == Unwrap(as_i64(value))
             max_int == and_then_as_i64(schema.maximum)
             min_int == and_then_as_i64(schema.minimum)
             exl_max_int == and_then_as_i64(schema.exclusive_maximum)
             exl_min_int == and_then_as_i64(schema.exclusive_minimum)
             multiple_of == and_then_as_i64(schema.multiple_of)
         IN IF IsSome(max_int) /\ int_val > Unwrap(max_int) THEN FALSE
            ELSE IF IsSome(min_int) /\ int_val < Unwrap(min_int) THEN FALSE
            ELSE IF IsSome(exl_max_int) /\ int_val >= Unwrap(exl_max_int) THEN FALSE
            ELSE IF IsSome(exl_min_int) /\ int_val <= Unwrap(exl_min_int) THEN FALSE
            ELSE IF IsSome(multiple_of) /\ rem(int_val, Unwrap(multiple_of)) # 0 THEN FALSE
            ELSE TRUE
    ELSE FALSE

\* OpenApiValidator::validate_number_rules
validate_number_rules(value, schema) ==
    IF IsSome(as_f64(value))
    THEN LET number_val == 2 * Unwrap(as_f64(value))
         IN IF IsSome(schema.maximum)
               /\ number_val > Number_as_f64(Unwrap(schema.maximum)) THEN FALSE
            ELSE IF IsSome(schema.minimum)
                    /\ number_val < Number_as_f64(Unwrap(schema.minimum)) THEN FALSE
            ELSE IF IsSome(schema.exclusive_maximum)
                    /\ number_val >= Number_as_f64(Unwrap(schema.exclusive_maximum)) THEN FALSE
            ELSE IF IsSome(schema.exclusive_minimum)
                    /\ number_val <= Number_as_f64(Unwrap(schema.exclusive_minimum)) THEN FALSE
            ELSE TRUE
    ELSE FALSE

\* OpenApiValidator::validate_boolean_rules
validate_boolean_rules(value, schema) == IsSome(as_bool(value))

\* OpenApiValidator::validate_null_rules
validate_null_rules(value, schema) == IsSome(as_null(value))

RECURSIVE validate_with_schema(_, _)
RECURSIVE validate_for_type(_, _, _)
RECURSIVE validate_array_rules(_, _)
RECURSIVE validate_object_rules(_, _)

\* OpenApiValidator::validate_array_rules
validate_array_rules(value, schema) ==
    IF IsSome(as_array(value))
    THEN LET array_val == Unwrap(as_array(value))
         IN IF IsSome(schema.max_items) /\ Len(array_val) > Unwrap(schema.max_items) THEN FALSE
            ELSE IF IsSome(schema.min_items) /\ Len(array_val) < Unwrap(schema.min_items) THEN FALSE
            ELSE IF schema.unique_items = Some(TRUE)
                    /\ \E i, j \in 1 .. Len(array_val) : i # j /\ array_val[i] = array_val[j]
                 THEN FALSE
            ELSE IF IsSome(schema.items)
                 THEN \A i \in 1 .. Len(array_val) :
                          validate_with_schema(array_val[i], Unwrap(schema.items))
            ELSE TRUE
    ELSE FALSE

\* OpenApiValidator::validate_object_rules
validate_object_rules(value, schema) ==
    IF IsSome(as_object(value))
    THEN LET object_val == Unwrap(as_object(value))
         IN IF \E i \in 1 .. Len(schema.required) : schema.required[i] \notin DOMAIN object_val
            THEN FALSE
            ELSE \A field \in DOMAIN schema.properties :
                     field \in DOMAIN object_val =>
                         validate_with_schema(object_val[field], schema.properties[field])
    ELSE FALSE

\* OpenApiValidator::validate_for_type
validate_for_type(value, type_val, schema) ==
    CASE type_val = "Boolean" -> validate_boolean_rules(value, schema)
      [] type_val = "Integer" -> validate_integer_rules(value, schema)
      [] type_val = "Number" -> validate_number_rules(value, schema)
      [] type_val = "String" -> validate_string_rules(value, schema)
      [] type_val = "Array" -> validate_array_rules(value, schema)
      [] type_val = "Object" -> validate_object_rules(value, schema)
      [] type_val = "Null" -> validate_null_rules(value, schema)

\* The number of the subschemas of a list that the value is valid against
\* (valid_count after the loop over the list).
valid_count(value, schemas) ==
    Cardinality({i \in 1 .. Len(schemas) : validate_with_schema(value, schemas[i])})

\* OpenApiValidator::validate_with_schema: the type when one is declared;
\* otherwise the first declared of allOf, anyOf, oneOf; otherwise false.
validate_with_schema(value, schema) ==
    IF IsSome(schema.schema_type)
    THEN \E i \in 1 .. Len(Unwrap(schema.schema_type)[2]) :
             validate_for_type(value, Unwrap(schema.schema_type)[2][i], schema)
    ELSE IF schema.one_of # <<>> \/ schema.all_of # <<>> \/ schema.any_of # <<>>
    THEN IF schema.all_of # <<>>
         THEN valid_count(value, schema.all_of) = Len(schema.all_of)
         ELSE IF schema.any_of # <<>>
         THEN valid_count(value, schema.any_of) > 0
         ELSE IF schema.one_of # <<>>
         THEN valid_count(value, schema.one_of) = 1
         ELSE FALSE
    ELSE FALSE

(***************************************************************************)
(* validate_with_schema called on the values and schemas of the model.     *)
(***************************************************************************)
\* The member schemas: the objects of test_validate_object_rules_all_of
\* (a required, typed property each) and a plain string.
PetProps ==
    [ObjectSchema_default EXCEPT
        !.schema_type = Some(Single("Object")),
        !.required = <<"pet_type">>,
        !.properties = [f \in {"pet_type"} |->
                            [ObjectSchema_default EXCEPT !.schema_type = Some(Single("String"))]]]
CatProps ==
    [ObjectSchema_default EXCEPT
        !.schema_type = Some(Single("Object")),
        !.required = <<"age">>,
        !.properties = [f \in {"age"} |->
                            [ObjectSchema_default EXCEPT !.schema_type = Some(Single("Integer")),
                                                         !.maximum = Some(Number_from(9))]]]
NameSchema == [ObjectSchema_default EXCEPT !.schema_type = Some(Single("String")),
                                           !.max_length = Some(1)]
MemberSchemas == {PetProps, CatProps, NameSchema}

\* The schemas validate_with_schema is called on: any lists of members under
\* allOf, anyOf and oneOf, with or without a type next to them.
ComposedSchemas ==
    {[ObjectSchema_default EXCEPT !.schema_type = t, !.all_of = a, !.any_of = n, !.one_of = o] :
        t \in {None, Some(Single("Object")), Some(Multiple(<<"String", "Null">>))},
        a \in SeqsUpTo(MemberSchemas, MaxSubschemas),
        n \in SeqsUpTo(MemberSchemas, MaxSubschemas),
        o \in SeqsUpTo(MemberSchemas, MaxSubschemas)}

\* The request bodies: objects with and without the required fields, with a
\* field of the wrong type or out of range, and values that are no object.
Cat == JStr(<<"C">>)
JsonValues ==
    {JObj([f \in {} |-> JNull]),
     JObj([f \in {"pet_type"} |-> Cat]),
     JObj([f \in {"age"} |-> JInt(3)]),
     JObj([f \in {"pet_type", "age"} |-> IF f = "age" THEN JInt(3) ELSE Cat]),
     JObj([f \in {"pet_type", "age"} |-> IF f = "age" THEN JInt(12) ELSE Cat]),
     JObj([f \in {"pet_type"} |-> JInt(3)]),
     Cat, JStr(<<"C", "a", "t">>), JInt(3), JNull, JBool(TRUE),
     JArr(<<Cat, Cat>>)}

SchemaInit ==
    /\ specification \in ComposedSchemas
    /\ args \in {[value |-> v] : v \in JsonValues}
    /\ answer = None

ValidateWithSchema ==
    /\ answer = None
    /\ answer' = Some(validate_with_schema(args.value, specification))
    /\ UNCHANGED <<specification, args>>
    /\ UNCHANGED <<coreVars, cacheVars>>

SchemaNext ==
    \/ ValidateWithSchema

InitSchema == SchemaInit /\ CacheInit /\ ExchangeInit /\ StatusIdle /\ EntryIdle

SpecSchema == InitSchema /\ [][SchemaNext]_vars

(***************************************************************************)
(* Path matching: OpenApiValidator::get_matching_operation (lib.rs) and    *)
(* OpenApiNodeFinder::find_matching_operation (node_finder.rs).            *)
(***************************************************************************)
PATH_SPLIT == "/"
PATH_PARAM_LEFT == "{"
PATH_PARAM_RIGHT == "}"

\* str::find(char): the position of the first occurrence (counted from 1)
find(s, ch) ==
    IF \E i \in 1 .. Len(s) : s[i] = ch
    THEN Some(CHOOSE i \in 1 .. Len(s) : s[i] = ch /\ \A j \in 1 .. i - 1 : s[j] # ch)
    ELSE None

\* str::split(char).collect::<Vec<&str>>(): the pieces between the separators
RECURSIVE split(_, _)
split(s, sep) ==
    IF find(s, sep) = None THEN <<s>>
    ELSE LET i == Unwrap(find(s, sep))
         IN <<SubSeq(s, 1, i - 1)>> \o split(SubSeq(s, i + 1, Len(s)), sep)

\* Parameter: name, location (in), required, schema, content
Parameter(name, location, required, schema) ==
    [name |-> name, location |-> location, required |-> required,
     schema |-> schema, content |-> None]

\* OpenApiValidator::get_param_value / OpenApiNodeFinder::get_path_parameter_definition:
\* the first parameter of the operation with that name
get_param_value(param_name, endpoint_params) ==
    IF \E i \in 1 .. Len(endpoint_params) : endpoint_params[i].name = param_name
    THEN Some(endpoint_params[CHOOSE i \in 1 .. Len(endpoint_params) :
                  /\ endpoint_params[i].name = param_name
                  /\ \A j \in 1 .. i - 1 : endpoint_params[j].name # param_name])
    ELSE None

\* OpenApiNodeFinder::extract_openapi_path_parameter_name, and the same test
\* in match_path_segments: the text between the first '{' and the first '}'
extract_openapi_path_parameter_name(segment) ==
    IF IsSome(find(segment, PATH_PARAM_LEFT)) /\ IsSome(find(segment, PATH_PARAM_RIGHT))
    THEN Some(SubSeq(segment, Unwrap(find(segment, PATH_PARAM_LEFT)) + 1,
                     Unwrap(find(segment, PATH_PARAM_RIGHT)) - 1))
    ELSE None

\* Iterator::zip: as many pairs as the shorter of the two has elements
zip(a, b) == [i \in 1 .. (IF Len(a) < Len(b) THEN Len(a) ELSE Len(b)) |-> <<a[i], b[i]>>]

\* The closure of match_path_segments on one pair of segments: whether
\* matching_segments is incremented.  json!(target_segment) is a string.
segment_matches(spec_segment, target_segment, path_method_item_params) ==
    IF IsSome(extract_openapi_path_parameter_name(spec_segment))
    THEN LET param == get_param_value(Unwrap(extract_openapi_path_parameter_name(spec_segment)),
                                      path_method_item_params)
         IN /\ IsSome(param)
            /\ IsSome(Unwrap(param).schema)
            /\ validate_with_schema(JStr(target_segment), Unwrap(Unwrap(param).schema))
    ELSE spec_segment = target_segment

\* OpenApiValidator::match_path_segments
match_path_segments(target_path, spec_path, path_method_item_params) ==
    LET pairs == zip(split(spec_path, PATH_SPLIT), split(target_path, PATH_SPLIT))
        segment_count == Len(pairs)
        matching_segments ==
            Cardinality({i \in 1 .. Len(pairs) :
                segment_matches(pairs[i][1], pairs[i][2], path_method_item_params)})
    IN matching_segments = segment_count

\* PathItem::methods().into_iter().find(|(method, _)| method.as_str() == method_to_match)
find_method(path_item, method_to_match) ==
    IF \E i \in 1 .. Len(path_item.methods) : path_item.methods[i][1] = method_to_match
    THEN Some(path_item.methods[CHOOSE i \in 1 .. Len(path_item.methods) :
                  /\ path_item.methods[i][1] = method_to_match
                  /\ \A j \in 1 .. i - 1 : path_item.methods[j][1] # method_to_match][2])
    ELSE None

\* OpenApiValidator::get_matching_operation: the operation of the first path
\* of the document, in the order of the map, that has the method and matches
RECURSIVE get_matching_operation(_, _, _)
get_matching_operation(spec_paths, path_to_match, method_to_match) ==
    IF spec_paths = <<>> THEN None
    ELSE LET op == find_method(Head(spec_paths), method_to_match)
         IN IF IsSome(op) /\ match_path_segments(path_to_match, Head(spec_paths).spec_path,
                                                 Unwrap(op).parameters)
            THEN op
            ELSE get_matching_operation(Tail(spec_paths), path_to_match, method_to_match)

\* str::to_lowercase over the names of the model
to_lowercase(s) ==
    CASE s = "GET" -> "get"
      [] s = "POST" -> "post"
      [] s = "Content-Type" -> "content-type"
      [] s = "X-Limit" -> "x-limit"
      [] OTHER -> s

\* The decimal digits and the number a string of digits denotes.
Digits == <<"0", "1", "2", "3", "4", "5", "6", "7", "8", "9">>
DigitValue(c) == (CHOOSE i \in 1 .. Len(Digits) : Digits[i] = c) - 1
IsDigit(c) == \E i \in 1 .. Len(Digits) : Digits[i] = c
RECURSIVE parse_digits(_, _)
parse_digits(s, acc) ==
    IF s = <<>> THEN acc ELSE parse_digits(Tail(s), 10 * acc + DigitValue(Head(s)))

\* try_cast_to_type: the lexical cast of a segment to a schema type
\* (Err(()) when the text is not of that type).
try_cast_to_type(target_segment, schema_type) ==
    CASE schema_type = "Integer" \/ schema_type = "Number" ->
             IF target_segment # <<>> /\ \A i \in 1 .. Len(target_segment) : IsDigit(target_segment[i])
             THEN Some(JInt(parse_digits(target_segment, 0))) ELSE None
      [] schema_type = "String" -> Some(JStr(target_segment))
      [] schema_type = "Boolean" ->
             IF target_segment = <<"t", "r", "u", "e">> THEN Some(JBool(TRUE))
             ELSE IF target_segment = <<"f", "a", "l", "s", "e">> THEN Some(JBool(FALSE))
             ELSE None
      [] schema_type = "Null" ->
             IF target_segment = <<"n", "u", "l", "l">> THEN Some(JNull) ELSE None
      [] OTHER -> None

\* crate::validate_with_schema(value, schema) -> Result<(), ()> as node_finder.rs
\* calls it: Ok(()) when the value is valid against the schema.
crate_validate_with_schema(value, schema) == validate_with_schema(value, schema)

\* OpenApiNodeFinder::try_cast_path_param_to_schema_type: the first type of
\* the schema the segment can be cast to (the schemas of path parameters in
\* the model all declare a type, as schema_type.unwrap() needs).
try_cast_path_param_to_schema_type(target_segment, schema) ==
    LET types == Unwrap(schema.schema_type)[2]
    IN IF \E i \in 1 .. Len(types) : IsSome(try_cast_to_type(target_segment, types[i]))
       THEN try_cast_to_type(target_segment,
                types[CHOOSE i \in 1 .. Len(types) :
                    /\ IsSome(try_cast_to_type(target_segment, types[i]))
                    /\ \A j \in 1 .. i - 1 : ~IsSome(try_cast_to_type(target_segment, types[j]))])
       ELSE None

\* OpenApiNodeFinder::path_parameter_value_matches_type: TRUE for Ok(()).
\* Every failed  if let  on the way falls through to the final Ok(()).
path_parameter_value_matches_type(param_name, target_segment, path_method_item_params) ==
    LET param == get_param_value(param_name, path_method_item_params)
    IN IF IsSome(param) /\ IsSome(Unwrap(param).schema)
          /\ IsSome(try_cast_path_param_to_schema_type(target_segment, Unwrap(Unwrap(param).schema)))
       THEN crate_validate_with_schema(
                Unwrap(try_cast_path_param_to_schema_type(target_segment,
                                                          Unwrap(Unwrap(param).schema))),
                Unwrap(Unwrap(param).schema))
       ELSE TRUE

\* OpenApiNodeFinder::match_openapi_endpoint_path_segments
match_openapi_endpoint_path_segments(target_path, spec_path, path_method_item_params) ==
    LET target_segments == split(target_path, PATH_SPLIT)
        spec_segments == split(spec_path, PATH_SPLIT)
        pairs == zip(spec_segments, target_segments)
        segment_count == Len(pairs)
        matching_segments ==
            Cardinality({i \in 1 .. Len(pairs) :
                IF IsSome(extract_openapi_path_parameter_name(pairs[i][1]))
                THEN path_parameter_value_matches_type(
                         Unwrap(extract_openapi_path_parameter_name(pairs[i][1])),
                         pairs[i][2], path_method_item_params)
                ELSE pairs[i][1] = pairs[i][2]})
    IN matching_segments = segment_count

\* JsonPath::add_segment: '/' is written "~1"
RECURSIVE escape_slash(_)
escape_slash(segment) ==
    IF segment = <<>> THEN <<>>
    ELSE (IF Head(segment) = "/" THEN <<"~", "1">> ELSE <<Head(segment)>>)
         \o escape_slash(Tail(segment))

\* The JsonPath of an operation: "paths", the path, the method in lower case
operation_path(spec_path, method_to_match) ==
    <<"paths", escape_slash(spec_path), to_lowercase(method_to_match)>>

\* OpenApiNodeFinder::detailed_path_search
RECURSIVE detailed_path_search(_, _, _)
detailed_path_search(path_to_match, method_to_match, paths) ==
    IF paths = <<>> THEN None
    ELSE LET op == find_method(Head(paths), method_to_match)
         IN IF IsSome(op) /\ match_openapi_endpoint_path_segments(
                                 path_to_match, Head(paths).spec_path, Unwrap(op).parameters)
            THEN Some(<<Unwrap(op), operation_path(Head(paths).spec_path, method_to_match)>>)
            ELSE detailed_path_search(path_to_match, method_to_match, Tail(paths))

\* Spec::operation(method, path): the operation under exactly this path
exact_operation(paths, path_to_match, method_to_match) ==
    IF \E i \in 1 .. Len(paths) : paths[i].spec_path = path_to_match
    THEN find_method(paths[CHOOSE i \in 1 .. Len(paths) : paths[i].spec_path = path_to_match],
                     method_to_match)
    ELSE None

\* OpenApiNodeFinder::find_matching_operation
find_matching_operation(path_to_match, method_to_match, paths, path_param) ==
    IF path_param
    THEN detailed_path_search(path_to_match, method_to_match, paths)
    ELSE IF IsSome(exact_operation(paths, path_to_match, method_to_match))
         THEN Some(<<Unwrap(exact_operation(paths, path_to_match, method_to_match)),
                     operation_path(path_to_match, method_to_match)>>)
         ELSE None

(***************************************************************************)
(* The path matchers called on the documents and paths of the model.       *)
(* /p stands for a literal path, /p/x for a longer literal one, /p/{i} for *)
(* a path with a parameter, as /pet/findById/{id}.                         *)
(***************************************************************************)
IntegerSchema == [ObjectSchema_default EXCEPT !.schema_type = Some(Single("Integer"))]
StringSchema == [ObjectSchema_default EXCEPT !.schema_type = Some(Single("String"))]
IntegerOrStringSchema ==
    [ObjectSchema_default EXCEPT !.schema_type = Some(Multiple(<<"Integer", "String">>))]
\* What the path parameter declares: no schema, or one of the typed ones.
ParamSchemas == {None, Some(IntegerSchema), Some(StringSchema), Some(IntegerOrStringSchema)}

\* Operation: its parameters and its request body
Operation(id, parameters, request_body) ==
    [operation_id |-> id, parameters |-> parameters, request_body |-> request_body]

\* PathItem under its key in paths, with the methods it declares
PathItem(spec_path, methods) == [spec_path |-> spec_path, methods |-> methods]

LiteralPath == <<"/", "p">>
LongerPath == <<"/", "p", "/", "x">>
ParamPath == <<"/", "p", "/", "{", "i", "}">>

\* The paths of a document in the order of the BTreeMap (the order of the keys).
SortedPaths(ps) ==
    <<PathItem(LiteralPath, <<<<"GET", Operation("getAll", <<>>, None)>>>>),
      PathItem(LongerPath, <<<<"GET", Operation("getX", <<>>, None)>>>>),
      PathItem(ParamPath,
               <<<<"GET", Operation("findById", <<Parameter(<<"i">>, "Path", TRUE, ps)>>, None)>>>>)>>

\* The subsequence of s at the positions in keep
RECURSIVE Sub(_, _, _)
Sub(s, keep, i) ==
    IF i > Len(s) THEN <<>>
    ELSE (IF i \in keep THEN <<s[i]>> ELSE <<>>) \o Sub(s, keep, i + 1)

Documents ==
    {[paths |-> Sub(SortedPaths(ps), keep, 1)] :
        ps \in ParamSchemas, keep \in (SUBSET {1, 2, 3}) \ {{}}}

PathChars == {"/", "p", "1", "x"}
\* The request paths: every text of the characters that begins with '/'.
TargetPaths == {t \in SeqsUpTo(PathChars, MaxPathLen) : t # <<>> /\ t[1] = "/"}

MatchInit ==
    /\ specification \in Documents
    /\ args \in [path : TargetPaths, method : {"GET", "POST"}]
    /\ answer = None

\* match_path_segments as get_matching_operation calls it for a path item
MatchPathSegments ==
    /\ answer = None
    /\ \E i \in 1 .. Len(specification.paths) :
        /\ IsSome(find_method(specification.paths[i], args.method))
        /\ answer' = Some([fn |-> "match_path_segments",
                           spec_path |-> specification.paths[i].spec_path,
                           result |-> match_path_segments(
                               args.path, specification.paths[i].spec_path,
                               Unwrap(find_method(specification.paths[i], args.method)).parameters)])
    /\ UNCHANGED <<specification, args>>
    /\ UNCHANGED <<coreVars, cacheVars>>

\* match_openapi_endpoint_path_segments as detailed_path_search calls it
MatchOpenapiEndpointPathSegments ==
    /\ answer = None
    /\ \E i \in 1 .. Len(specification.paths) :
        /\ IsSome(find_method(specification.paths[i], args.method))
        /\ answer' = Some([fn |-> "match_openapi_endpoint_path_segments",
                           spec_path |-> specification.paths[i].spec_path,
                           result |-> match_openapi_endpoint_path_segments(
                               args.path, specification.paths[i].spec_path,
                               Unwrap(find_method(specification.paths[i], args.method)).parameters)])
    /\ UNCHANGED <<specification, args>>
    /\ UNCHANGED <<coreVars, cacheVars>>

GetMatchingOperation ==
    /\ answer = None
    /\ answer' = Some([fn |-> "get_matching_operation",
                       result |-> get_matching_operation(specification.paths,
                                                         args.path, args.method)])
    /\ UNCHANGED <<specification, args>>
    /\ UNCHANGED <<coreVars, cacheVars>>

FindMatchingOperation ==
    /\ answer = None
    /\ \E path_param \in BOOLEAN :
        answer' = Some([fn |-> "find_matching_operation", path_param |-> path_param,
                        result |-> find_matching_operation(args.path, args.method,
                                                           specification.paths, path_param)])
    /\ UNCHANGED <<specification, args>>
    /\ UNCHANGED <<coreVars, cacheVars>>

MatchNext ==
    \/ MatchPathSegments
    \/ MatchOpenapiEndpointPathSegments
    \/ GetMatchingOperation
    \/ FindMatchingOperation

InitMatch == MatchInit /\ CacheInit /\ ExchangeInit /\ StatusIdle /\ EntryIdle

SpecMatch == InitMatch /\ [][MatchNext]_vars

(***************************************************************************)
(* OpenApiValidator::validate_request (lib.rs).  A header or query value   *)
(* is the sequence of its characters; a media type, which is only compared *)
(* and tested for its prefix, is one element of the sequence.              *)
(***************************************************************************)
\* segment.starts_with("application") || .. ("multipart") || .. ("text")
starts_with_media_prefix(segment) ==
    segment # <<>> /\ segment[1] \in {"application/json", "multipart/form-data", "text/plain"}

\* The first element of a sequence that satisfies the test of validate_request_body
RECURSIVE find_data_type(_)
find_data_type(segments) ==
    IF segments = <<>> THEN None
    ELSE IF starts_with_media_prefix(Head(segments)) THEN Some(Head(segments))
    ELSE find_data_type(Tail(segments))

\* headers.iter().find(|(header_name, _)| header_name.to_lowercase() == "content-type"):
\* the maps of the model have at most one such key
find_content_type(headers) ==
    IF \E h \in DOMAIN headers : to_lowercase(h) = "content-type"
    THEN Some(headers[CHOOSE h \in DOMAIN headers : to_lowercase(h) = "content-type"])
    ELSE None

\* OpenApiValidator::validate_request_body
validate_request_body(body, request_schema, headers) ==
    LET content_type == find_content_type(headers)
    IN IF IsSome(content_type)
       THEN LET data_type == find_data_type(split(Unwrap(content_type), ";"))
            IN IF IsSome(data_type)
                  /\ Unwrap(data_type) \in DOMAIN request_schema.content
                  /\ IsSome(request_schema.content[Unwrap(data_type)].schema)
               THEN validate_with_schema(body,
                        Unwrap(request_schema.content[Unwrap(data_type)].schema))
               ELSE FALSE
       ELSE FALSE

\* OpenApiValidator::validate_parameters: "true", "false", or "panic" for the
\* todo!() met at a parameter that declares content and is present.
RECURSIVE validate_parameters(_, _)
validate_parameters(headers, parameters) ==
    IF parameters = <<>> THEN "true"
    ELSE LET resolved_param == Head(parameters)
         IN IF resolved_param.name \in DOMAIN headers
            THEN IF IsSome(resolved_param.content) THEN "panic"
                 ELSE IF IsSome(resolved_param.schema)
                         /\ ~validate_with_schema(JStr(headers[resolved_param.name]),
                                                  Unwrap(resolved_param.schema))
                 THEN "false"
                 ELSE validate_parameters(headers, Tail(parameters))
            ELSE IF resolved_param.required THEN "false"
            ELSE validate_parameters(headers, Tail(parameters))

\* parameters.iter().filter(|param| param.location == ..).collect()
RECURSIVE filter_location(_, _)
filter_location(parameters, location) ==
    IF parameters = <<>> THEN <<>>
    ELSE (IF Head(parameters).location = location THEN <<Head(parameters)>> ELSE <<>>)
         \o filter_location(Tail(parameters), location)

\* OpenApiValidator::validate_request: "Ok", "Err" or "panic"
validate_request(spec_paths, path, method, headers, query_params, body) ==
    LET found == get_matching_operation(spec_paths, path, method)
    IN IF IsSome(found)
       THEN LET operation == Unwrap(found)
                body_invalid ==
                    /\ IsSome(operation.request_body) /\ IsSome(body) /\ IsSome(headers)
                    /\ ~validate_request_body(Unwrap(body), Unwrap(operation.request_body),
                                              Unwrap(headers))
                header_check ==
                    IF operation.parameters # <<>> /\ IsSome(headers)
                    THEN validate_parameters(Unwrap(headers),
                                             filter_location(operation.parameters, "Header"))
                    ELSE "true"
                query_check ==
                    IF operation.parameters # <<>> /\ IsSome(query_params)
                    THEN validate_parameters(Unwrap(query_params),
                                             filter_location(operation.parameters, "Query"))
                    ELSE "true"
            IN IF body_invalid THEN "Err"
               ELSE IF header_check = "panic" THEN "panic"
               ELSE IF header_check = "false" THEN "Err"
               ELSE IF query_check = "panic" THEN "panic"
               ELSE IF query_check = "false" THEN "Err"
               ELSE "Ok"
       ELSE "Err"

(***************************************************************************)
(* validate_request called on the documents and requests of the model: one *)
(* POST operation under /p with a header parameter X-Limit, maybe a query  *)
(* parameter q and maybe a JSON request body.                              *)
(***************************************************************************)
LimitSchema == [ObjectSchema_default EXCEPT !.schema_type = Some(Single("Integer")),
                                            !.maximum = Some(Number_from(50))]
\* What X-Limit declares: nothing, an integer up to 50, a string of one character.
HeaderParamSchemas == {None, Some(LimitSchema), Some(NameSchema)}

\* RequestBody with its content map (media type -> MediaType with a schema)
RequestBody(content) == [content |-> content]
PetBody == RequestBody([t \in {"application/json"} |-> [schema |-> Some(PetProps)]])

RequestDocuments ==
    {[paths |-> <<PathItem(LiteralPath,
                    <<<<"POST", Operation("addPet", Sub(<<hp, qp>>, keep, 1), rb)>>>>)>>] :
        hp \in {[Parameter("X-Limit", "Header", r, s) EXCEPT !.content = c] :
                    r \in BOOLEAN, s \in HeaderParamSchemas,
                    c \in {None, Some("application/json")}},
        qp \in {Parameter("q", "Query", TRUE, Some(LimitSchema))},
        keep \in {{}, {1}, {1, 2}},
        rb \in {None, Some(PetBody)}}

\* The header maps: X-Limit absent or with a text, a content type or none.
LimitTexts == {<<"4", "2">>, <<"9", "9">>, <<"x">>, <<"x", "x">>}
ContentTypeTexts ==
    {<<"application/json">>, <<"application/json", ";", "charset=utf-8">>, <<"image/png">>}
HeaderMaps ==
    {[h \in {} |-> <<>>]}
    \cup {[h \in {"X-Limit"} |-> l] : l \in LimitTexts}
    \cup {[h \in {k} |-> c] : k \in {"Content-Type", "content-type"}, c \in ContentTypeTexts}
    \cup {[h \in {"X-Limit", "Content-Type"} |-> IF h = "X-Limit" THEN l ELSE c] :
              l \in LimitTexts, c \in ContentTypeTexts}
QueryMaps == {[h \in {} |-> <<>>]} \cup {[h \in {"q"} |-> l] : l \in LimitTexts}
Bodies_json == {JObj([f \in {"pet_type"} |-> Cat]), JObj([f \in {} |-> JNull])}

Requests ==
    [path : {LiteralPath, LongerPath, <<"/", "x">>}, method : {"POST", "GET"},
     headers : {None} \cup {Some(h) : h \in HeaderMaps},
     query_params : {None} \cup {Some(q) : q \in QueryMaps},
     body : {None} \cup {Some(b) : b \in Bodies_json}]

RequestInit ==
    /\ specification \in RequestDocuments
    /\ args \in Requests
    /\ answer = None

ValidateRequest ==
    /\ answer = None
    /\ answer' = Some(validate_request(specification.paths, args.path, args.method,
                                       args.headers, args.query_params, args.body))
    /\ UNCHANGED <<specification, args>>
    /\ UNCHANGED <<coreVars, cacheVars>>

RequestNext ==
    \/ ValidateRequest

InitRequest == RequestInit /\ CacheInit /\ ExchangeInit /\ StatusIdle /\ EntryIdle

SpecRequest == InitRequest /\ [][RequestNext]_vars

(***************************************************************************)
(* validate_integer_rules called on the integers and the integer schemas   *)
(* of the model: every keyword is undeclared, declared by an integer, or   *)
(* declared by a number with a fraction.                                   *)
(***************************************************************************)
MaxInteger == 12

\* schema.maximum = Some(Number::from(10)) and the like, as in
\* test_validate_integer_rules, and the same keywords written with a fraction
IntegerRuleSchemas ==
    {[ObjectSchema_default EXCEPT
         !.maximum = mx, !.minimum = mn,
         !.exclusive_maximum = xmx, !.exclusive_minimum = xmn,
         !.multiple_of = mo] :
         mx \in {None, Some(Number_from(10)), Some(Number_from_f64(21))},
         mn \in {None, Some(Number_from(5)), Some(Number_from_f64(9))},
         xmx \in {None, Some(Number_from(10))},
         xmn \in {None, Some(Number_from(5))},
         mo \in {None, Some(Number_from(2)), Some(Number_from_f64(5))}}

IntegerInit ==
    /\ specification \in IntegerRuleSchemas
    /\ args \in {[value |-> v] : v \in {JInt(n) : n \in 0 .. MaxInteger} \cup {JStr(<<"8">>)}}
    /\ answer = None

ValidateIntegerRules ==
    /\ answer = None
    /\ answer' = Some(validate_integer_rules(args.value, specification))
    /\ UNCHANGED <<specification, args>>
    /\ UNCHANGED <<coreVars, cacheVars>>

IntegerNext ==
    \/ ValidateIntegerRules

InitInteger == IntegerInit /\ CacheInit /\ ExchangeInit /\ StatusIdle /\ EntryIdle

SpecInteger == InitInteger /\ [][IntegerNext]_vars

(***************************************************************************)
(* The JSON-pointer builders (idem-openapi/src/json_path_builder.rs and    *)
(* JsonPath of node_finder.rs): one segment is added to a new builder.     *)
(***************************************************************************)
MaxSegmentLen == 3

SegmentChars == {"/", "~", "0", "1", "a"}

\* JsonPointerPathBuilder::add_segment on JsonPointerPathBuilder::new():
\* the segments after the push (the same replacement as JsonPath's)
JsonPointerPathBuilder_add_segment(segments, segment) ==
    Append(segments, escape_slash(segment))

\* JsonPath::add_segment on JsonPath::new()
JsonPath_add_segment(segments, segment) ==
    Append(segments, escape_slash(segment))

PointerInit ==
    /\ specification = <<>>
    /\ args \in {[segment |-> s] : s \in SeqsUpTo(SegmentChars, MaxSegmentLen)}
    /\ answer = None

BuilderAddSegment ==
    /\ answer = None
    /\ answer' = Some(JsonPointerPathBuilder_add_segment(specification, args.segment))
    /\ UNCHANGED <<specification, args>>
    /\ UNCHANGED <<coreVars, cacheVars>>

JsonPathAddSegment ==
    /\ answer = None
    /\ answer' = Some(JsonPath_add_segment(specification, args.segment))
    /\ UNCHANGED <<specification, args>>
    /\ UNCHANGED <<coreVars, cacheVars>>

PointerNext ==
    \/ BuilderAddSegment
    \/ JsonPathAddSegment

InitPointer == PointerInit /\ CacheInit /\ ExchangeInit /\ StatusIdle /\ EntryIdle

SpecPointer == InitPointer /\ [][PointerNext]_vars

(***************************************************************************)
(* The CORS handler (idem-serverless/src/implementation/cors/handler.rs).  *)
(* An origin is the sequence of its characters; positions are byte         *)
(* offsets counted from 0, as in the source.                               *)
(***************************************************************************)
\* &s[from..to]
slice(s, from, to) == SubSeq(s, from + 1, to)

\* &s[from..]
slice_from(s, from) == SubSeq(s, from + 1, Len(s))

\* str::find(&str): the offset of the first occurrence of the pattern
find_str(s, pat) ==
    LET at(i) == i + Len(pat) <= Len(s) /\ slice(s, i, i + Len(pat)) = pat
    IN IF \E i \in 0 .. Len(s) : at(i)
       THEN Some(CHOOSE i \in 0 .. Len(s) : at(i) /\ \A j \in 0 .. i - 1 : ~at(j))
       ELSE None

\* str::parse::<i32>: an optional sign and decimal digits, within 32 bits
parse_i32(s) ==
    LET signed == s # <<>> /\ s[1] \in {"+", "-"}
        digits == IF signed THEN Tail(s) ELSE s
        n == parse_digits(digits, 0)
    IN IF digits = <<>> \/ \E i \in 1 .. Len(digits) : ~IsDigit(digits[i]) THEN None
       ELSE IF signed /\ s[1] = "-"
            THEN (IF n - 1 <= 2147483647 THEN Some(0 - n) ELSE None)
            ELSE (IF n <= 2147483647 THEN Some(n) ELSE None)

HTTP == <<"h", "t", "t", "p">>
HTTPS == <<"h", "t", "t", "p", "s">>
scheme_pattern == <<":", "/", "/">>

\* remove_default_ports reading the port at the first ':' after the scheme,
\* brackets or not.
remove_default_ports_first_colon(url) ==
    IF Len(url) < Len(scheme_pattern) THEN <<"panic">>
    ELSE LET found == find_str(slice_from(url, Len(scheme_pattern)), scheme_pattern)
         IN IF found = None THEN <<"Ok", url>>
            ELSE LET index == Unwrap(found) + Len(scheme_pattern)
                     scheme == slice(url, 0, index)
                     after_scheme_index == Len(scheme) + Len(scheme_pattern)
                     colon == find_str(slice_from(url, after_scheme_index), <<":">>)
                 IN IF colon = None THEN <<"Ok", url>>
                    ELSE LET port_index == Unwrap(colon) + 1
                             port == parse_i32(slice_from(url, after_scheme_index + port_index))
                         IN IF port = None THEN <<"panic">>
                            ELSE IF (scheme = HTTP /\ Unwrap(port) = 80)
                                    \/ (scheme = HTTPS /\ Unwrap(port) = 443)
                            THEN <<"Ok", slice(url, 0, after_scheme_index + port_index - 1)>>
                            ELSE <<"Ok", url>>

\* CorsHandler::remove_default_ports: <<"Ok", the returned slice>>, or a panic
\* (a slice out of range, the unwrap of a missing ']', the unwrap of a port
\* that is not an i32)
remove_default_ports(url) ==
    IF Len(url) < Len(scheme_pattern) THEN <<"panic">>
    ELSE LET found == find_str(slice_from(url, Len(scheme_pattern)), scheme_pattern)
         IN IF found = None THEN <<"Ok", url>>
            ELSE LET index == Unwrap(found) + Len(scheme_pattern)
                     scheme == slice(url, 0, index)
                     bracket == find_str(slice_from(url, Len(scheme) + Len(scheme_pattern)), <<"[">>)
                     ipv6_start_index == Unwrap(bracket) + 1
                     ipv6_end == find_str(slice_from(url, ipv6_start_index), <<"]">>)
                     after_scheme_index ==
                         IF bracket = None THEN Len(scheme) + Len(scheme_pattern)
                         ELSE Unwrap(ipv6_end) + 1
                     colon == find_str(slice_from(url, after_scheme_index), <<":">>)
                     port_index == Unwrap(colon) + 1
                     port == parse_i32(slice_from(url, after_scheme_index + port_index))
                 IN IF bracket # None /\ ipv6_end = None THEN <<"panic">>
                    ELSE IF colon = None THEN <<"Ok", url>>
                    ELSE IF port = None THEN <<"panic">>
                    ELSE IF (scheme = HTTP /\ Unwrap(port) = 80)
                            \/ (scheme = HTTPS /\ Unwrap(port) = 443)
                    THEN <<"Ok", slice(url, 0, after_scheme_index + port_index - 1)>>
                    ELSE <<"Ok", url>>

\* The origins of the model: scheme "://" host, and ":" port when there is one
Schemes == {HTTP, HTTPS, <<"f", "t", "p">>}
Hosts == {<<"h">>, <<"h", ".", "x">>, <<"[", ":", ":", "1", "]">>, <<"[", "2", ":", ":", "1", "]">>}
Ports == {None, Some(<<"8", "0">>), Some(<<"4", "4", "3">>), Some(<<"8", "0", "8", "0">>),
          Some(<<"8">>), Some(<<"0", "8", "0">>)}
Origin(scheme, host, port) ==
    scheme \o scheme_pattern \o host \o (IF IsSome(port) THEN <<":">> \o Unwrap(port) ELSE <<>>)

PortsInit ==
    /\ specification = <<>>
    /\ args \in {[scheme |-> s, host |-> h, port |-> p, url |-> Origin(s, h, p)] :
                    s \in Schemes, h \in Hosts, p \in Ports}
    /\ answer = None

RemoveDefaultPorts ==
    /\ answer = None
    /\ answer' = Some(remove_default_ports(args.url))
    /\ UNCHANGED <<specification, args>>
    /\ UNCHANGED <<coreVars, cacheVars>>

PortsNext ==
    \/ RemoveDefaultPorts

InitPorts == PortsInit /\ CacheInit /\ ExchangeInit /\ StatusIdle /\ EntryIdle

SpecPorts == InitPorts /\ [][PortsNext]_vars

(***************************************************************************)
(* The handlers of the request flow run by entry's loop on one Exchange.   *)
(* specification holds the handlers' configurations, args the request.     *)
(* A header map is a function from header names (HeaderName is lower case) *)
(* to values.                                                              *)
(***************************************************************************)
\* HeaderMap::new
HeaderMap_new == [q \in {} |-> None]

\* ApiGatewayProxyResponse::default()
Response_default == [status_code |-> 0, headers |-> HeaderMap_new, body |-> None, marks |-> <<>>]

\* ApiGatewayProxyRequest
Request(http_method, path, headers, body) ==
    [http_method |-> http_method, path |-> path, headers |-> headers, body |-> body,
     marks |-> <<>>]

\* What a handler's process leaves: the status (or Err, or a panic), its
\* message and the exchange
Outcome(ret, message, ex) == [ret |-> ret, message |-> message, ex |-> ex]

\* String::to_lowercase over the characters of the model's origins
chars_to_lowercase(s) ==
    [i \in 1 .. Len(s) |-> CASE s[i] = "H" -> "h" [] s[i] = "X" -> "x" [] OTHER -> s[i]]

\* str::starts_with
starts_with(s, prefix) == Len(prefix) <= Len(s) /\ SubSeq(s, 1, Len(prefix)) = prefix

\* CorsHandler::process.  The response built for an allowed preflight is a
\* local that is dropped at the end of its block.
CorsHandler_process(cors, ex) ==
    IF ~cors.enabled THEN Outcome(Ok(DISABLED), None, ex)
    ELSE IF ~input(ex).ok THEN Outcome(<<"panic">>, None, ex)
    ELSE LET request == Unwrap(input(ex).value)
         IN IF "origin" \notin DOMAIN request.headers
            THEN Outcome(Ok(OK), None, ex)
            ELSE LET trimmed == remove_default_ports(request.headers["origin"])
                     origin_header_value == trimmed[2]
                     request_path == IF IsSome(request.path) THEN Unwrap(request.path)
                                     ELSE <<"/">>
                     prefixes == {k \in DOMAIN cors.path_prefix_cors_config :
                                      starts_with(request_path, k)}
                     path_config == IF prefixes = {} THEN None
                                    ELSE Some(cors.path_prefix_cors_config[CHOOSE k \in prefixes : TRUE])
                     exchange_allowed_origins ==
                         cors.allowed_origins
                             \o (IF IsSome(path_config) THEN Unwrap(path_config).allowed_origins
                                 ELSE <<>>)
                     allowed == \E i \in 1 .. Len(exchange_allowed_origins) :
                                    chars_to_lowercase(exchange_allowed_origins[i])
                                        = origin_header_value
                     listening ==
                         add_output_listener(
                             [ex EXCEPT !.attachments =
                                 add_attachment(@, "ORIGIN_ATTACHMENT_KEY", "String",
                                                [ty |-> "String", val |-> origin_header_value])],
                             "cors")
                 IN IF trimmed[1] = "panic" THEN Outcome(<<"panic">>, None, ex)
                    ELSE IF request.http_method = "OPTIONS"
                    THEN IF allowed THEN Outcome(Ok(OK), None, listening)
                         ELSE Outcome(Ok(CLIENT_ERROR), Some("Origin is forbidden"),
                                      save_output(ex, [Response_default EXCEPT !.status_code = 403]))
                    ELSE IF ~allowed THEN Outcome(Ok(REQUEST_COMPLETED), None, ex)
                    ELSE Outcome(Ok(OK), None, listening)

\* What the Lambda invocation of the proxy handler can come to
LambdaAnswers == {"response", "function_error", "unparsable", "invoke_error"}

\* The response a downstream function returns
LambdaResponse == [Response_default EXCEPT !.status_code = 200, !.body = Some("downstream")]

\* LambdaProxyHandler::exec
LambdaProxyHandler_exec(proxy, ex, lambda) ==
    IF ~proxy.enabled THEN Outcome(Ok(DISABLED), None, ex)
    ELSE LET taken_request == take_request(ex)
         IN IF ~taken_request.ok
            THEN Outcome(Ok(SERVER_ERROR), Some("Failed to consume request."), ex)
            ELSE IF Unwrap(taken_request.value).path = None
            THEN Outcome(Ok(CLIENT_ERROR), Some("Missing path in request."), taken_request.ex)
            ELSE IF ~proxy.function_found
            THEN Outcome(Ok(CLIENT_ERROR),
                         Some("No function found for path and method combination."),
                         taken_request.ex)
            ELSE CASE lambda = "response" ->
                          Outcome(Ok(REQUEST_COMPLETED), None,
                                  save_output(taken_request.ex, LambdaResponse))
                   [] lambda = "function_error" ->
                          Outcome(Ok(SERVER_ERROR), Some("Lambda function returned an error."),
                                  taken_request.ex)
                   [] lambda = "unparsable" ->
                          Outcome(Ok(SERVER_ERROR),
                                  Some("Failed to parse response from Lambda function."),
                                  taken_request.ex)
                   [] lambda = "invoke_error" ->
                          Outcome(Ok(SERVER_ERROR), Some("Failed to invoke Lambda function."),
                                  taken_request.ex)

\* TraceabilityHandler::find_or_create_uuid; uuid is what Uuid::new_v4() gives
find_or_create_uuid(headers, header_name, gen_uuid, uuid) ==
    IF \E header_key \in DOMAIN headers : to_lowercase(header_key) = header_name
    THEN Some(headers[CHOOSE header_key \in DOMAIN headers :
                          to_lowercase(header_key) = header_name])
    ELSE IF gen_uuid THEN Some(uuid) ELSE None

\* TraceabilityHandler::exec
TraceabilityHandler_exec(traceability, ex, uuid) ==
    IF ~traceability.enabled THEN Outcome(Ok(DISABLED), None, ex)
    ELSE IF ~input(ex).ok THEN Outcome(<<"panic">>, None, ex)
    ELSE LET request == Unwrap(input(ex).value)
             cid_header_name == traceability.correlation_header_name
             cid == find_or_create_uuid(request.headers, cid_header_name,
                                        traceability.autogen_correlation_id, uuid)
             tid_header_name == traceability.traceability_header_name
             tid == find_or_create_uuid(request.headers, tid_header_name, FALSE, uuid)
             boxed(v) == [ty |-> "String", val |-> v]
             attached ==
                 add_attachment(
                     add_attachment(
                         add_attachment(
                             add_attachment(ex.attachments, "TRACE_V_ATTACHMENT_KEY", "String",
                                            boxed(Unwrap(tid))),
                             "CORR_V_ATTACHMENT_KEY", "String", boxed(Unwrap(cid))),
                         "CORR_H_ATTACHMENT_KEY", "String", boxed(cid_header_name)),
                     "TRACE_H_ATTACHMENT_KEY", "String", boxed(tid_header_name))
             ex1 == IF IsSome(tid) /\ traceability.add_trace_to_response
                    THEN add_output_listener([ex EXCEPT !.attachments = attached], "traceability")
                    ELSE ex
             ex2 == [ex1 EXCEPT !.input =
                        Some([request EXCEPT !.headers =
                                 map_insert(@, to_lowercase(cid_header_name), Unwrap(cid))])]
         IN IF IsSome(cid) THEN Outcome(Ok(OK), None, ex2) ELSE Outcome(Ok(OK), None, ex)

\* An echo that answers from the borrowed input and leaves it in the exchange.
EchoRequestHandler_exec_borrow(echo, ex) ==
    IF ~echo.enabled THEN Outcome(Ok(DISABLED), None, ex)
    ELSE IF ~input(ex).ok THEN Outcome(<<"panic">>, None, ex)
    ELSE LET request_payload == Unwrap(input(ex).value)
         IN Outcome(Ok(OK), None,
                    save_output(ex, [Response_default EXCEPT
                                        !.status_code = 200, !.body = request_payload.body,
                                        !.headers = request_payload.headers]))

\* EchoRequestHandler::exec
EchoRequestHandler_exec(echo, ex) ==
    IF ~echo.enabled THEN Outcome(Ok(DISABLED), None, ex)
    ELSE LET taken_request == take_request(ex)
             request_payload == Unwrap(taken_request.value)
             echo_body == IF IsSome(echo.static_body)
                          THEN (IF Unwrap(echo.static_body) # "" THEN echo.static_body ELSE None)
                          ELSE request_payload.body
             response_payload ==
                 [Response_default EXCEPT
                     !.status_code = 200, !.body = echo_body,
                     !.headers = IF echo.echo_headers THEN request_payload.headers ELSE @]
         IN IF ~taken_request.ok THEN Outcome(<<"panic">>, None, ex)
            ELSE Outcome(Ok(OK), None, save_output(taken_request.ex, response_payload))

HEALTH_STATUS == 200
HEALTH_BODY == "OK"
HEALTH_ERROR == "ERROR"

\* What the downstream invocation of the health check can answer: the status
\* code of the invocation, or an error (503)
DownstreamAnswers == {200, 204, 500, 503}

\* HealthCheckHandler::process
HealthCheckHandler_process(health, ex, downstream) ==
    IF ~health.enabled THEN Outcome(Ok(DISABLED), None, ex)
    ELSE LET response_status == IF health.downstream_enabled THEN downstream ELSE HEALTH_STATUS
             headers == map_insert(HeaderMap_new, "content-type", <<"plain/text">>)
             response == IF response_status > 200 /\ response_status < 300
                         THEN [Response_default EXCEPT !.headers = headers,
                                  !.body = Some(HEALTH_BODY), !.status_code = HEALTH_STATUS]
                         ELSE [Response_default EXCEPT !.headers = headers,
                                  !.status_code = response_status, !.body = Some(HEALTH_ERROR)]
         IN Outcome(Ok(OK), None, save_output(ex, response))

\* The closures registered with add_output_listener, run by take_output on
\* the response in the order of their registration (the marks they left)
RECURSIVE run_output_closures(_, _, _)
run_output_closures(marks, response, attachments) ==
    IF marks = <<>> THEN response
    ELSE LET at(key) == attachment(attachments, key, "String")
             headers ==
                 CASE Head(marks) = "cors" ->
                          IF IsSome(at("ORIGIN_ATTACHMENT_KEY"))
                          THEN map_insert(response.headers, "access-control-allow-origin",
                                          Unwrap(at("ORIGIN_ATTACHMENT_KEY")))
                          ELSE response.headers
                   [] Head(marks) = "traceability" ->
                          LET h1 == IF IsSome(at("CORR_H_ATTACHMENT_KEY"))
                                       /\ IsSome(at("CORR_V_ATTACHMENT_KEY"))
                                    THEN map_insert(response.headers,
                                                    Unwrap(at("CORR_H_ATTACHMENT_KEY")),
                                                    Unwrap(at("CORR_V_ATTACHMENT_KEY")))
                                    ELSE response.headers
                          IN IF IsSome(at("TRACE_H_ATTACHMENT_KEY"))
                                /\ IsSome(at("TRACE_V_ATTACHMENT_KEY"))
                             THEN map_insert(h1, Unwrap(at("TRACE_H_ATTACHMENT_KEY")),
                                             Unwrap(at("TRACE_V_ATTACHMENT_KEY")))
                             ELSE h1
             IN run_output_closures(Tail(marks), [response EXCEPT !.headers = headers],
                                    attachments)

(***************************************************************************)
(* entry's loop over the handlers of a route, with these handlers.         *)
(***************************************************************************)
\* The configurations at rest (the handlers a chain does not hold)
CorsConfig(enabled, allowed_origins, path_prefix_cors_config) ==
    [enabled |-> enabled, allowed_origins |-> allowed_origins,
     allowed_methods |-> <<"GET">>, path_prefix_cors_config |-> path_prefix_cors_config]

ProxyConfig(enabled, function_found) == [enabled |-> enabled, function_found |-> function_found]

\* TraceabilityHandlerConfig, with the header names of the repository's trace.json
TraceabilityConfig(enabled, autogen_correlation_id, add_trace_to_response) ==
    [enabled |-> enabled, autogen_correlation_id |-> autogen_correlation_id,
     correlation_header_name |-> "x-correlation-id",
     traceability_header_name |-> "x-traceability-id",
     add_trace_to_response |-> add_trace_to_response]

EchoConfig(enabled, echo_headers, static_body) ==
    [enabled |-> enabled, echo_headers |-> echo_headers, static_body |-> static_body]

HealthConfig(enabled, downstream_enabled) ==
    [enabled |-> enabled, downstream_enabled |-> downstream_enabled]

Configuration(cors, proxy, traceability, echo, health) ==
    [cors |-> cors, proxy |-> proxy, traceability |-> traceability, echo |-> echo,
     health |-> health]

AtRest ==
    Configuration(CorsConfig(FALSE, <<>>, HeaderMap_new), ProxyConfig(TRUE, TRUE),
                  TraceabilityConfig(TRUE, TRUE, TRUE), EchoConfig(TRUE, TRUE, None),
                  HealthConfig(TRUE, FALSE))

\* The header maps with the headers of hs that m gives a value to
HeaderMaps_of(m) ==
    {[k \in ks |-> m[k]] : ks \in SUBSET (DOMAIN m)}

\* Routes whose chain is the CORS handler and then the proxy handler
CorsSetups ==
    {[chain |-> <<"CorsHandler", "ProxyHandler">>,
      configuration |-> [AtRest EXCEPT !.cors = CorsConfig(e, ao, pp), !.proxy = ProxyConfig(TRUE, f)],
      request |-> Request(m, Some(<<"/", "p">>), hs, None)] :
        e \in BOOLEAN, f \in BOOLEAN,
        ao \in {<<>>, <<Origin(HTTP, <<"H">>, None)>>},
        pp \in {HeaderMap_new,
                [k \in {<<"/">>} |-> [allowed_origins |-> <<Origin(HTTP, <<"x">>, None)>>,
                                     allowed_methods |-> <<"POST">>]]},
        m \in {"GET", "OPTIONS"},
        hs \in UNION {HeaderMaps_of([k \in {"origin", "access-control-request-headers"} |->
                                        IF k = "origin" THEN o ELSE <<"x-limit">>]) :
                          o \in {Origin(HTTP, <<"h">>, Some(<<"8", "0">>)),
                                 Origin(HTTP, <<"h">>, None),
                                 Origin(HTTPS, <<"x">>, None)}}}

\* Routes whose chain is the traceability handler and then a terminator
TraceSetups ==
    {[chain |-> <<"TraceabilityHandler", t>>,
      configuration |-> [AtRest EXCEPT !.traceability = TraceabilityConfig(e, g, r),
                                       !.echo = EchoConfig(ee, eh, sb),
                                       !.health = HealthConfig(ee, eh)],
      request |-> Request("GET", Some(<<"/", "p">>), hs, b)] :
        t \in {"EchoRequestHandler", "HealthHandler"},
        e \in BOOLEAN, g \in BOOLEAN, r \in BOOLEAN, ee \in BOOLEAN, eh \in BOOLEAN,
        sb \in {None, Some(""), Some("static")},
        b \in {None, Some("body")},
        hs \in HeaderMaps_of([k \in {"x-correlation-id", "x-traceability-id"} |->
                                 IF k = "x-correlation-id" THEN <<"abc123">> ELSE <<"t1">>])}

FlowSetups == CorsSetups \cup TraceSetups

\* What Uuid::new_v4() can give
Uuids == {<<"uuid-1">>, <<"uuid-2">>}

\* entry up to the loop: Exchange::new, save_input(payload), add_metadata(context)
FlowInit ==
    /\ \E s \in FlowSetups :
          /\ specification = s.configuration
          /\ args = s.request
          /\ handlers_to_execute = s.chain
          /\ exchange = add_metadata(save_input(Exchange_new, s.request), "context")
    /\ answer = None
    /\ pc = "loop"
    /\ idx = 1
    /\ trace = <<>>
    /\ result = None
    /\ config = None
    /\ event = None
    /\ calls = <<>>
    /\ registered = <<>>
    /\ takenAfter = {}
    /\ taken = {}
    /\ adds = <<>>
    /\ last = Returned("new", TRUE, None)

\* One turn of the loop 'handler_exec: the handler has run (drawn is what its
\* environment answered, if it asked) and its status is classified
Turn(name, out, drawn) ==
    LET step == IF out.ret = <<"panic">> THEN "panic"
                ELSE IF IsOk(out.ret) THEN classify(CodeOf(out.ret)) ELSE "err"
        goes_on == step \in {"continue", "next"} /\ idx < Len(handlers_to_execute)
    IN /\ exchange' = out.ex
       /\ trace' = Append(trace, [name |-> name, ret |-> out.ret, message |-> out.message,
                                  input |-> exchange.input, drawn |-> drawn,
                                  output |-> out.ex.output])
       /\ idx' = IF goes_on THEN idx + 1 ELSE idx
       /\ pc' = CASE step \in {"panic", "todo_exception", "todo_continue"} -> "panicked"
                  [] step = "err" -> "done"
                  [] step = "break" -> "finish"
                  [] OTHER -> IF goes_on THEN "loop" ELSE "finish"
       /\ result' = CASE step \in {"panic", "todo_exception", "todo_continue"} ->
                             Some([kind |-> "panic", at |-> step])
                      [] step = "err" -> Some([kind |-> "Err"])
                      [] OTHER -> None
       /\ UNCHANGED <<specification, args, answer, handlers_to_execute, config, event>>
       /\ UNCHANGED <<calls, registered, takenAfter, taken, adds, last>>
       /\ UNCHANGED <<statusVars, cacheVars>>

CorsProcess ==
    /\ pc = "loop"
    /\ handlers_to_execute[idx] = "CorsHandler"
    /\ Turn("CorsHandler", CorsHandler_process(specification.cors, exchange), None)

ProxyExec ==
    /\ pc = "loop"
    /\ handlers_to_execute[idx] = "ProxyHandler"
    /\ \E lambda \in LambdaAnswers :
          Turn("ProxyHandler", LambdaProxyHandler_exec(specification.proxy, exchange, lambda),
               Some(lambda))

TraceabilityExec ==
    /\ pc = "loop"
    /\ handlers_to_execute[idx] = "TraceabilityHandler"
    /\ \E uuid \in Uuids :
          Turn("TraceabilityHandler",
               TraceabilityHandler_exec(specification.traceability, exchange, uuid),
               Some(uuid))

EchoExec ==
    /\ pc = "loop"
    /\ handlers_to_execute[idx] = "EchoRequestHandler"
    /\ Turn("EchoRequestHandler", EchoRequestHandler_exec(specification.echo, exchange), None)

HealthProcess ==
    /\ pc = "loop"
    /\ handlers_to_execute[idx] = "HealthHandler"
    /\ \E downstream \in DownstreamAnswers :
          Turn("HealthHandler",
               HealthCheckHandler_process(specification.health, exchange, downstream),
               Some(downstream))

\* return Ok(exchange.take_output().unwrap())
FlowTakeOutput ==
    /\ pc = "finish"
    /\ LET r == take_output(exchange)
       IN /\ exchange' = r.ex
          /\ pc' = IF r.ok THEN "done" ELSE "panicked"
          /\ result' = IF r.ok
                       THEN Some([kind |-> "Ok",
                                  response |-> run_output_closures(
                                                   Unwrap(r.value).marks, Unwrap(r.value),
                                                   exchange.attachments)])
                       ELSE Some([kind |-> "panic", at |-> "take_output().unwrap()"])
    /\ UNCHANGED <<specification, args, answer, handlers_to_execute, idx, trace, config, event>>
    /\ UNCHANGED <<calls, registered, takenAfter, taken, adds, last>>
    /\ UNCHANGED <<statusVars, cacheVars>>

FlowNext ==
    \/ CorsProcess
    \/ ProxyExec
    \/ TraceabilityExec
    \/ EchoExec
    \/ HealthProcess
    \/ FlowTakeOutput

InitFlow == FlowInit /\ CacheInit /\ StatusIdle

SpecFlow == InitFlow /\ [][FlowNext]_vars

(***************************************************************************)
(* JWT scope verification (src/handler/jwt.rs).  A scope is one letter, a  *)
(* scope claim the sequence of its characters.  The validator that         *)
(* validate_scope calls is not part of the sources; its three operations   *)
(* follow the specification of the JWT handler.                            *)
(***************************************************************************)
MaxScopeLen == 3

ScopeChars == {"r", "w", "a", "u", " "}

\* A security requirement: the scopes it lists under its scheme (oauth2)
Requirement(scopes) == [oauth2 |-> scopes]

\* create_test_spec: the operations and their security requirements
TestSpec ==
    [paths |->
        [p \in {"/users", "/admin", "/public", "/alternate-auth"} |->
            CASE p = "/users" ->
                     [m \in {"get", "post"} |->
                         [security |-> IF m = "get" THEN <<Requirement(<<<<"r">>>>)>>
                                       ELSE <<Requirement(<<<<"w">>>>)>>]]
              [] p = "/admin" ->
                     [m \in {"get"} |->
                         [security |-> <<Requirement(<<<<"a">>, <<"u">>>>)>>]]
              [] p = "/public" -> [m \in {"get"} |-> [security |-> <<>>]]
              [] p = "/alternate-auth" ->
                     [m \in {"get"} |->
                         [security |-> <<Requirement(<<<<"r">>>>), Requirement(<<<<"a">>>>)>>]]]]

\* OpenApiPayloadValidator::new(spec): the validator of a well-formed document
OpenApiPayloadValidator_new(spec) == Some(spec)

\* traverser().get_operation_from_path_and_method: the operation declared
\* under the path and the method, or an error
get_operation_from_path_and_method(validator, request_path, method) ==
    IF request_path \in DOMAIN validator.paths
       /\ to_lowercase(method) \in DOMAIN validator.paths[request_path]
    THEN Some(validator.paths[request_path][to_lowercase(method)])
    ELSE None

\* validate_request_scopes: Ok when the operation lists no requirement, or
\* the token's scopes contain every scope of at least one listed requirement
validate_request_scopes(operation, token_scopes) ==
    \/ operation.security = <<>>
    \/ \E i \in 1 .. Len(operation.security) :
           \A j \in 1 .. Len(operation.security[i].oauth2) :
               \E k \in 1 .. Len(token_scopes) :
                   token_scopes[k] = operation.security[i].oauth2[j]

\* claims.get("scope")
claims_get_scope(claims) == IF "scope" \in DOMAIN claims THEN Some(claims["scope"]) ELSE None

\* validate_scope taking the whole scope claim as one scope.
validate_scope_unsplit(spec, request_path, method, claims) ==
    LET scope == claims_get_scope(claims)
        validator == OpenApiPayloadValidator_new(spec)
        operation == get_operation_from_path_and_method(Unwrap(validator), request_path, method)
    IN IF scope = None \/ as_str(Unwrap(scope)) = None THEN Err
       ELSE IF validator = None \/ operation = None THEN Err
       ELSE IF ~validate_request_scopes(Unwrap(operation), <<Unwrap(as_str(Unwrap(scope)))>>)
       THEN Err
       ELSE Ok(<<>>)

\* JwtValidationHandler::validate_scope
validate_scope(spec, request_path, method, claims) ==
    LET scope == claims_get_scope(claims)
        token_scopes == split(Unwrap(as_str(Unwrap(scope))), " ")
        validator == OpenApiPayloadValidator_new(spec)
        operation == get_operation_from_path_and_method(Unwrap(validator), request_path, method)
    IN IF scope = None \/ as_str(Unwrap(scope)) = None THEN Err
       ELSE IF validator = None \/ operation = None THEN Err
       ELSE IF ~validate_request_scopes(Unwrap(operation), token_scopes) THEN Err
       ELSE Ok(<<>>)

\* The claims of a token: no scope claim, a number, or a string
ClaimSets ==
    {[k \in {} |-> None], [k \in {"scope"} |-> JInt(123)]}
        \cup {[k \in {"scope"} |-> JStr(s)] : s \in SeqsUpTo(ScopeChars, MaxScopeLen)}

ScopeInit ==
    /\ specification = TestSpec
    /\ args \in {[request_path |-> p, method |-> m, claims |-> c] :
                    p \in {"/users", "/admin", "/public", "/alternate-auth", "/nonexistent"},
                    m \in {"GET", "POST", "INVALID_METHOD"},
                    c \in ClaimSets}
    /\ answer = None

ValidateScope ==
    /\ answer = None
    /\ answer' = Some(validate_scope(specification, args.request_path, args.method, args.claims))
    /\ UNCHANGED <<specification, args>>
    /\ UNCHANGED <<coreVars, cacheVars>>

ScopeNext ==
    \/ ValidateScope

InitScope == ScopeInit /\ CacheInit /\ ExchangeInit /\ StatusIdle /\ EntryIdle

SpecScope == InitScope /\ [][ScopeNext]_vars

(***************************************************************************)
(* Properties.                                                             *)
(***************************************************************************)
\* How many times listener id has been invoked so far.
InvocationsOf(id) == Cardinality({i \in 1 .. Len(calls) : calls[i].id = id})

\* The ids of the invocations made so far on a side, in the order they were made.
RECURSIVE InvokedOn(_, _)
InvokedOn(cs, side) ==
    IF cs = <<>> THEN <<>>
    ELSE (IF Head(cs).side = side THEN <<Head(cs).id>> ELSE <<>>) \o InvokedOn(Tail(cs), side)

StrictlyIncreasing(q) == \A i, j \in 1 .. Len(q) : i < j => q[i] < q[j]

\* C1: under any sequence of Exchange operations, a registered listener has
\* been invoked exactly once if a take on its side succeeded after it was
\* registered and zero times otherwise, so never twice.
C1_ListenerExactlyOnce ==
    \A id \in 1 .. Len(registered) :
        /\ InvocationsOf(id) = (IF id \in takenAfter THEN 1 ELSE 0)
        /\ \A i \in 1 .. Len(calls) : calls[i].id = id => calls[i].side = registered[id]

\* A second successful take_request, with a listener that was invoked by the
\* first one and a listener of the other side that has not been invoked.
C1_Witness ==
    /\ last.op = "take_request" /\ last.ok /\ "input" \in last.takenBefore
    /\ \E id \in takenAfter : registered[id] = "input" /\ InvocationsOf(id) = 1
    /\ \E id \in 1 .. Len(registered) : id \notin takenAfter /\ InvocationsOf(id) = 0

\* C2: once take_request has succeeded every later input() and input_mut()
\* fails, and once take_output has succeeded every later output(),
\* output_mut() and take_output fails.
C2_TakeIsTerminal ==
    /\ (last.op \in {"input", "input_mut"} /\ "input" \in last.takenBefore) => ~last.ok
    /\ (last.op \in {"output", "output_mut", "take_output"} /\ "output" \in last.takenBefore)
          => ~last.ok

\* C6: the listeners of a side are invoked in registration order, each on a
\* value that is still held by the Exchange, and a successful take returns the
\* value after all pending listeners of its side ran on it: the marks on the
\* returned value are the tail of the invocation history, and no listener of
\* that side is left pending.
C6_ListenersInRegistrationOrder ==
    /\ \A side \in Sides : StrictlyIncreasing(InvokedOn(calls, side))
    /\ \A i \in 1 .. Len(calls) : calls[i].present
    /\ (last.op \in {"take_request", "take_output"} /\ last.ok) =>
          LET side == IF last.op = "take_request" THEN "input" ELSE "output"
              m == Unwrap(last.value).marks
              n == Len(calls) - Len(m)
          IN /\ n >= 0
             /\ \A i \in 1 .. Len(m) : calls[n + i].id = m[i] /\ calls[n + i].side = side
             /\ {m[i] : i \in 1 .. Len(m)} =
                   RegisteredOn(side) \ {calls[i].id : i \in 1 .. n}
             /\ (IF side = "input" THEN exchange.input_listeners
                 ELSE exchange.output_listeners) = <<>>
             /\ (IF side = "input" THEN exchange.input ELSE exchange.output) = None

\* A take that invoked at least two listeners registered on its side.
C6_Witness ==
    /\ last.op \in {"take_request", "take_output"}
    /\ last.ok
    /\ Len(Unwrap(last.value).marks) >= 2

\* The most recent add_attachment under a key, if there is one.
LastAddUnder(key) ==
    LET I == {i \in 1 .. Len(adds) : adds[i].key = key}
    IN IF I = {} THEN None ELSE Some(adds[CHOOSE i \in I : \A j \in I : j <= i])

\* The most recent add_attachment::<K> under a key, if there is one.
LastAddOfTypeUnder(key, K) ==
    LET I == {i \in 1 .. Len(adds) : adds[i].key = key /\ adds[i].K = K}
    IN IF I = {} THEN None ELSE Some(adds[CHOOSE i \in I : \A j \in I : j <= i])

C9_AllFlagsIsSubset ==
    IsSome(st) => (Unwrap(st).all <=> BitsOf(flags) \subseteq BitsOf(code))

\* C10: each of the seven named codes is one bit, no two are the same bit,
\* and any_flags(c, a | b) holds iff any_flags(c, a) or any_flags(c, b).
C10_BitDisjoint ==
    /\ \A i \in 1 .. Len(NamedCodes) : Cardinality(BitsOf(NamedCodes[i])) = 1
    /\ \A i, j \in 1 .. Len(NamedCodes) : i # j => NamedCodes[i] # NamedCodes[j]
    /\ Len(NamedCodes) = 7
    /\ IsSome(st) => (Unwrap(st).anyOr <=> (Unwrap(st).any \/ Unwrap(st).any2))

\* Two different overlapping two-bit masks, the code meeting only the second.
C10_Witness ==
    /\ IsSome(st)
    /\ Cardinality(BitsOf(flags)) = 2
    /\ Cardinality(BitsOf(flags2)) = 2
    /\ flags # flags2
    /\ BitsOf(flags) \cap BitsOf(flags2) # {}
    /\ ~Unwrap(st).any
    /\ Unwrap(st).any2
    /\ Unwrap(st).anyOr

\* Whether a handler's return is Ok(status) with one of the code's bits in mask.
ReturnedAny(r, mask) == IsOk(r) /\ BitsOf(CodeOf(r)) \cap BitsOf(mask) # {}

\* C3: when a handler returns REQUEST_COMPLETED (having set the output), no
\* handler after it is invoked and the output is taken and returned.
C3_CompletedShortCircuits ==
    \A i \in 1 .. Len(trace) :
        (trace[i].ret = Ok(REQUEST_COMPLETED) /\ trace[i].outputSet) =>
            /\ i = Len(trace)
            /\ pc = "done"
            /\ Unwrap(result).kind = "Ok"

\* C4: when a handler returns CLIENT_ERROR, SERVER_ERROR or TIMEOUT, no
\* further handler is invoked and the request finishes normally with an error
\* response: the task does not panic.
C4_FatalStatusIsAValue ==
    \A i \in 1 .. Len(trace) :
        ReturnedAny(trace[i].ret, FatalMask) =>
            /\ i = Len(trace)
            /\ pc = "done"
            /\ Unwrap(result).kind = "Ok"

\* C5: when the request ended after a handler returned a fatal status, every
\* output listener registered by an earlier handler has run exactly once.
C5_ListenersRunOnFailure ==
    pc \in {"done", "panicked"} =>
        \A i \in 1 .. Len(trace) :
            ReturnedAny(trace[i].ret, FatalMask) =>
                \A id \in 1 .. trace[i].regBefore :
                    registered[id] = "output" => InvocationsOf(id) = 1

\* The flattened exec list: a chain key is replaced by the chain's members,
\* every other name stands for one handler.
RECURSIVE Flattened(_, _)
Flattened(cfg, exec) ==
    IF exec = <<>> THEN <<>>
    ELSE (IF Head(exec) \in DOMAIN cfg.chains THEN cfg.chains[Head(exec)] ELSE <<Head(exec)>>)
         \o Flattened(cfg, Tail(exec))

\* C7: the handlers invoked for a matched route are, in order, the entries of
\* the flattened exec list, and after a handler returned OK or DISABLED the
\* request does not end before the next entry of the list is invoked.
C7_FlattenedOrder ==
    trace # <<>> =>
        LET F == Flattened(config, config.paths[Unwrap(event.path)].exec)
            n == Len(trace)
        IN /\ n <= Len(F)
           /\ \A i \in 1 .. n : trace[i].name = F[i]
           /\ (n >= 1 /\ pc # "loop" /\ trace[n].ret \in {Ok(OK), Ok(DISABLED)}) => n = Len(F)

\* C11: a save_input made after a successful take_request fails and leaves
\* the input absent.
C11_SaveAfterTakeFails ==
    (last.op = "save_input" /\ "input" \in last.takenBefore) =>
        /\ ~last.ok
        /\ exchange.input = None

\* Whether the request has a path that the route configuration has an entry
\* for, with a method equal to the request's ignoring ASCII case.
Matched ==
    /\ event.path # None
    /\ Unwrap(event.path) \in DOMAIN config.paths
    /\ eq_ignore_ascii_case(config.paths[Unwrap(event.path)].method, event.http_method)

\* C12: when the chain of a matched route is over and no handler has set the
\* output, entry returns a value (an error response): the task does not panic.
C12_NoOutputIsAnErrorValue ==
    (pc \in {"done", "panicked"} /\ last.op = "take_output" /\ ~last.ok) =>
        /\ pc = "done"
        /\ Unwrap(result).kind \in {"Ok", "Err"}

\* C13: once entry has ended, handlers were invoked iff the route matched, and
\* for every other request no handler was resolved or invoked, no exchange was
\* built and the result is the not-found error.
C13_HandlersIffRouteMatches ==
    pc \in {"done", "panicked"} =>
        /\ (trace # <<>>) <=> Matched
        /\ ~Matched =>
              /\ handlers_to_execute = <<>>
              /\ exchange = Exchange_new
              /\ result = Some([kind |-> "Err", message |-> "No configuration found"])

\* C14: when the flattened exec list of a matched route has a name for which
\* no handler can be created, the request ends with an error and no handler
\* has been invoked.
C14_UncreatableNameIsAnError ==
    (Matched /\ pc \in {"done", "panicked"}
     /\ \E i \in 1 .. Len(Flattened(config, config.paths[Unwrap(event.path)].exec)) :
           create_handler(config,
               Flattened(config, config.paths[Unwrap(event.path)].exec)[i]) = None) =>
        /\ trace = <<>>
        /\ pc = "done"
        /\ Unwrap(result).kind = "Err"

\* C15: for a fixed path, all the successful get_config_file calls made
\* between two calls of clear_cache / init_or_replace_config return the same
\* Arc, also when several threads miss the cache at first.
C15_SameArcBetweenClears ==
    \A r1, r2 \in returned : r1[1] = r2[1] => r1[2] = r2[2]

\* C20: on a schema that declares allOf, anyOf or oneOf, validate_with_schema
\* accepts the value iff it is valid against every allOf member, against at
\* least one anyOf member and against exactly one oneOf member, for each of
\* the three keywords the schema declares.
C20_CompositionSemantics ==
    (IsSome(answer)
     /\ (specification.all_of # <<>> \/ specification.any_of # <<>>
         \/ specification.one_of # <<>>)) =>
        (Unwrap(answer) <=>
            /\ specification.all_of # <<>> =>
                  valid_count(args.value, specification.all_of) = Len(specification.all_of)
            /\ specification.any_of # <<>> =>
                  valid_count(args.value, specification.any_of) > 0
            /\ specification.one_of # <<>> =>
                  valid_count(args.value, specification.one_of) = 1)

\* C16: a concrete path matches a path template only if both have the same
\* number of '/'-separated segments (no proper prefix of the template, no
\* extension of it matches).
C16_SegmentCountsMustAgree ==
    (IsSome(answer)
     /\ Unwrap(answer).fn \in {"match_path_segments", "match_openapi_endpoint_path_segments"}
     /\ Unwrap(answer).result) =>
        Len(split(args.path, PATH_SPLIT)) = Len(split(Unwrap(answer).spec_path, PATH_SPLIT))

\* C17: when the only template of the document is /p/{i} and i declares a
\* schema, get_matching_operation resolves /p/<segment> to the operation iff
\* the segment can be cast to one of the schema's types and the cast value is
\* valid against the schema (/p/1 resolves under an integer schema, /p/x
\* resolves to nothing).
C17_TypedPathParameter ==
    (IsSome(answer)
     /\ Unwrap(answer).fn = "get_matching_operation"
     /\ args.method = "GET"
     /\ Len(specification.paths) = 1
     /\ specification.paths[1].spec_path = ParamPath
     /\ IsSome(specification.paths[1].methods[1][2].parameters[1].schema)
     /\ Len(split(args.path, PATH_SPLIT)) = 3
     /\ split(args.path, PATH_SPLIT)[2] = <<"p">>) =>
        LET schema == Unwrap(specification.paths[1].methods[1][2].parameters[1].schema)
            cast == try_cast_path_param_to_schema_type(split(args.path, PATH_SPLIT)[3], schema)
        IN IsSome(Unwrap(answer).result) <=>
               (IsSome(cast) /\ validate_with_schema(Unwrap(cast), schema))

\* The operation validate_request was called for, when the document has one.
OperationOf == get_matching_operation(specification.paths, args.path, args.method)

\* C18: validate_request called with a body and without headers, for an
\* operation that declares a request body, returns an error.
C18_BodyWithoutHeadersIsAnError ==
    (IsSome(answer) /\ IsSome(args.body) /\ args.headers = None
     /\ IsSome(OperationOf) /\ IsSome(Unwrap(OperationOf).request_body)) =>
        Unwrap(answer) = "Err"

\* Whether a header parameter rejects the headers: required and absent, or
\* present with a text that, cast to the type of its schema, is not valid.
HeaderParameterFails(param, headers) ==
    IF param.name \in DOMAIN headers
    THEN /\ IsSome(param.schema)
         /\ LET cast == try_cast_path_param_to_schema_type(headers[param.name],
                                                           Unwrap(param.schema))
            IN ~(IsSome(cast) /\ validate_with_schema(Unwrap(cast), Unwrap(param.schema)))
    ELSE param.required

\* C19: for a call with headers (and nothing else that is validated: no body,
\* no query parameters) on a declared operation whose header parameters
\* declare no content, validate_request returns an error iff some header
\* parameter of the operation is required and absent or present with a text
\* that is not a valid value of the declared type.
C19_HeaderParameters ==
    (IsSome(answer) /\ IsSome(args.headers) /\ args.body = None /\ args.query_params = None
     /\ IsSome(OperationOf)
     /\ \A i \in 1 .. Len(Unwrap(OperationOf).parameters) :
            Unwrap(OperationOf).parameters[i].content = None) =>
        LET params == filter_location(Unwrap(OperationOf).parameters, "Header")
        IN (Unwrap(answer) = "Err") <=>
               \E i \in 1 .. Len(params) : HeaderParameterFails(params[i], Unwrap(args.headers))

\* What the keywords of an integer schema ask of the integer v (numbers as
\* twice their value).
MeetsDeclaredBounds(v, schema) ==
    /\ IsSome(schema.minimum) => 2 * v >= Number_as_f64(Unwrap(schema.minimum))
    /\ IsSome(schema.maximum) => 2 * v <= Number_as_f64(Unwrap(schema.maximum))
    /\ IsSome(schema.exclusive_minimum) => 2 * v > Number_as_f64(Unwrap(schema.exclusive_minimum))
    /\ IsSome(schema.exclusive_maximum) => 2 * v < Number_as_f64(Unwrap(schema.exclusive_maximum))
    /\ IsSome(schema.multiple_of) => (2 * v) % Number_as_f64(Unwrap(schema.multiple_of)) = 0

\* C21: validate_integer_rules accepts an integer v if and only if v meets
\* every one of minimum, maximum, exclusiveMinimum, exclusiveMaximum and
\* multipleOf that the schema declares.
C21_IntegerRulesFollowDeclaredBounds ==
    (IsSome(answer) /\ IsSome(as_i64(args.value)))
        => (Unwrap(answer) <=> MeetsDeclaredBounds(Unwrap(as_i64(args.value)), specification))

\* s with every occurrence of the two characters a b replaced by the
\* character to, from the left
RECURSIVE replace_pair(_, _, _, _)
replace_pair(s, a, b, to) ==
    IF Len(s) < 2 THEN s
    ELSE IF s[1] = a /\ s[2] = b
         THEN <<to>> \o replace_pair(SubSeq(s, 3, Len(s)), a, b, to)
         ELSE <<s[1]>> \o replace_pair(Tail(s), a, b, to)

\* The unescaping of a reference token (RFC 6901): ~1 to /, then ~0 to ~
unescape(token) == replace_pair(replace_pair(token, "~", "1", "/"), "~", "0", "~")

\* C22: the segment that add_segment(s) stores unescapes back to exactly s.
C22_EscapeRoundTrip ==
    IsSome(answer) => unescape(Unwrap(answer)[1]) = args.segment

\* The port of the model's origin is the default port of its scheme.
IsDefaultPort(a) ==
    /\ IsSome(a.port)
    /\ \/ a.scheme = HTTP /\ parse_digits(Unwrap(a.port), 0) = 80
       \/ a.scheme = HTTPS /\ parse_digits(Unwrap(a.port), 0) = 443

\* C28: remove_default_ports returns the origin without its ":port" exactly
\* when the scheme is http and the port 80, or https and 443, bracketed IPv6
\* hosts included, and returns every other origin unchanged.
C28_DefaultPortsAreRemoved ==
    IsSome(answer) =>
        Unwrap(answer) = <<"Ok", IF IsDefaultPort(args) THEN Origin(args.scheme, args.host, None)
                                 ELSE args.url>>

\* A bracketed IPv6 origin with the default port has been trimmed.
C28_Witness ==
    /\ IsSome(answer)
    /\ IsDefaultPort(args)
    /\ args.host[1] = "["
    /\ Unwrap(answer) = <<"Ok", Origin(args.scheme, args.host, None)>>

\* The origins the CORS configuration allows for the request: the global
\* list and the list of the path prefix the request's path starts with.
EffectiveAllowList(cors, request) ==
    LET path == IF IsSome(request.path) THEN Unwrap(request.path) ELSE <<"/">>
        prefixed == {k \in DOMAIN cors.path_prefix_cors_config : starts_with(path, k)}
        Elems(list) == {list[j] : j \in 1 .. Len(list)}
    IN {chars_to_lowercase(o) :
            o \in Elems(cors.allowed_origins)
                   \cup UNION {Elems(cors.path_prefix_cors_config[k].allowed_origins) :
                                   k \in prefixed}}

\* The enabled CORS handler ran as the i-th handler on a request with an Origin.
CorsSaw(i) ==
    /\ i \in 1 .. Len(trace)
    /\ trace[i].name = "CorsHandler"
    /\ specification.cors.enabled
    /\ IsSome(trace[i].input)
    /\ "origin" \in DOMAIN Unwrap(trace[i].input).headers

\* The Origin of the request the i-th handler saw, default port trimmed
TrimmedOrigin(i) == remove_default_ports(Unwrap(trace[i].input).headers["origin"])[2]

OriginAllowed(i) ==
    TrimmedOrigin(i) \in EffectiveAllowList(specification.cors, Unwrap(trace[i].input))

\* C23: whenever the enabled CORS handler sees a request, of any method, whose
\* trimmed Origin is not in the effective allow list, it returns CLIENT_ERROR
\* with the message "Origin is forbidden" and an output of status 403, and no
\* handler after it is invoked.
C23_ForbiddenOriginIsAClientError ==
    \A i \in 1 .. Len(trace) :
        (CorsSaw(i) /\ ~OriginAllowed(i)) =>
            /\ trace[i].ret = Ok(CLIENT_ERROR)
            /\ trace[i].message = Some("Origin is forbidden")
            /\ IsSome(trace[i].output)
            /\ Unwrap(trace[i].output).status_code = 403
            /\ Len(trace) = i

\* The headers of a preflight answer
PreflightHeaders ==
    {"access-control-allow-origin", "access-control-allow-methods",
     "access-control-allow-headers", "access-control-allow-credentials",
     "access-control-max-age"}

\* C24: for a preflight request (OPTIONS with an Origin) whose origin is
\* allowed, the CORS handler stores in the exchange an output that carries the
\* five Access-Control headers and returns REQUEST_COMPLETED.
C24_PreflightIsAnswered ==
    \A i \in 1 .. Len(trace) :
        (CorsSaw(i) /\ Unwrap(trace[i].input).http_method = "OPTIONS" /\ OriginAllowed(i)) =>
            /\ trace[i].ret = Ok(REQUEST_COMPLETED)
            /\ IsSome(trace[i].output)
            /\ PreflightHeaders \subseteq DOMAIN Unwrap(trace[i].output).headers

\* The enabled traceability handler generates correlation ids and adds them
\* to the response, and the request carries neither header.
TraceCase ==
    /\ Len(trace) >= 1
    /\ trace[1].name = "TraceabilityHandler"
    /\ specification.traceability.enabled
    /\ specification.traceability.autogen_correlation_id
    /\ specification.traceability.add_trace_to_response
    /\ DOMAIN args.headers = {}

\* C25: in that case the next handler sees the request with a generated
\* correlation id in its headers, and the response returned after the output
\* is taken carries the correlation header with the same id.
C25_CorrelationIdIsPropagated ==
    (TraceCase /\ Len(trace) >= 2 /\ pc = "done" /\ result[1].kind = "Ok") =>
        LET seen == Unwrap(trace[2].input).headers
            response == result[1].response.headers
        IN /\ "x-correlation-id" \in DOMAIN seen
           /\ seen["x-correlation-id"] \in Uuids
           /\ "x-correlation-id" \in DOMAIN response
           /\ response["x-correlation-id"] = seen["x-correlation-id"]

\* C30: whenever a handler returns a status that contains REQUEST_COMPLETED,
\* the output of the exchange is present at that moment.
C30_CompletedImpliesOutput ==
    \A i \in 1 .. Len(trace) :
        (IsOk(trace[i].ret) /\ BitAnd(CodeOf(trace[i].ret), REQUEST_COMPLETED) # 0)
            => IsSome(trace[i].output)

\* The enabled health-check handler ran as the i-th handler and found the
\* service healthy: the downstream check is disabled, or it answered 200.
HealthyAt(i) ==
    /\ i \in 1 .. Len(trace)
    /\ trace[i].name = "HealthHandler"
    /\ specification.health.enabled
    /\ ~specification.health.downstream_enabled \/ trace[i].drawn = Some(200)

\* C26: the enabled health-check handler, when healthy, sets an output whose
\* body is "OK" and returns REQUEST_COMPLETED.
C26_HealthyAnswersOK ==
    \A i \in 1 .. Len(trace) :
        HealthyAt(i) =>
            /\ trace[i].ret = Ok(REQUEST_COMPLETED)
            /\ IsSome(trace[i].output)
            /\ Unwrap(trace[i].output).body = Some("OK")

\* The enabled echo handler, with echo_headers and no static body, ran as the
\* i-th handler on a request.
EchoedAt(i) ==
    /\ i \in 1 .. Len(trace)
    /\ trace[i].name = "EchoRequestHandler"
    /\ specification.echo.enabled
    /\ specification.echo.echo_headers
    /\ specification.echo.static_body = None
    /\ IsSome(trace[i].input)

\* C29: for every request R the enabled echo handler, with echo_headers = true
\* and no static_body, consumes the input and sets an output whose body is
\* R.body and whose headers include every header of R.
C29_EchoReturnsTheRequest ==
    \A i \in 1 .. Len(trace) :
        EchoedAt(i) =>
            LET R == Unwrap(trace[i].input)
            IN /\ exchange.input = None
               /\ IsSome(trace[i].output)
               /\ Unwrap(trace[i].output).body = R.body
               /\ \A k \in DOMAIN R.headers :
                      /\ k \in DOMAIN Unwrap(trace[i].output).headers
                      /\ Unwrap(trace[i].output).headers[k] = R.headers[k]

\* The echo handler has answered a request that has a body and headers.
C29_Witness ==
    /\ EchoedAt(Len(trace))
    /\ Unwrap(trace[Len(trace)].input).body = Some("body")
    /\ DOMAIN Unwrap(trace[Len(trace)].input).headers = {"x-correlation-id", "x-traceability-id"}
    /\ IsSome(trace[Len(trace)].output)
    /\ Unwrap(trace[Len(trace)].output).body = Some("body")

\* The security requirements of the operation the call is about, if the
\* document declares that operation
RequirementsOf(a) ==
    IF a.request_path \in DOMAIN specification.paths
       /\ to_lowercase(a.method) \in DOMAIN specification.paths[a.request_path]
    THEN Some(specification.paths[a.request_path][to_lowercase(a.method)].security)
    ELSE None

\* The scopes of a space-separated scope claim
ScopesOf(text) == {split(text, " ")[i] : i \in 1 .. Len(split(text, " "))}

\* The scopes a requirement lists
ListedBy(requirement) == {requirement.oauth2[j] : j \in 1 .. Len(requirement.oauth2)}

\* The token's scope claim is a string that satisfies the operation: the
\* operation has no requirement, or one of its requirements in full.
Satisfies(a) ==
    /\ "scope" \in DOMAIN a.claims
    /\ a.claims["scope"][1] = "string"
    /\ IsSome(RequirementsOf(a))
    /\ LET requirements == Unwrap(RequirementsOf(a))
       IN \/ requirements = <<>>
          \/ \E i \in 1 .. Len(requirements) :
                 ListedBy(requirements[i]) \subseteq ScopesOf(a.claims["scope"][2])

====
